---- MODULE Spec2Model ----
(***************************************************************************)
(* Model of the retargeting engine of avatar-recoder (src/main.js):        *)
(*   - OneEuroFilter            (adaptive low-pass filter, lines 16-66)    *)
(*   - the hysteresis gate      (applyPose, lines 2303-2323)               *)
(*   - animate / applyPose / resetPose / the Pose toggle (orchestrator)    *)
(*   - OneEuroFilter3D and the pose filter bank (lines 69-111)             *)
(*   - solveTwoBoneIK, mpToVRM, applyFingers (the geometry)                *)
(*   - the arms of applyPose: gate, scale, IK target and pole              *)
(*   - recording: startRecording, stopRecording, onstop (lines 1472-1756)  *)
(*   - microphone, captions, audio meters, screen capture                  *)
(*     (lines 375-530, 996-1191, 1336-1465)                                *)
(*                                                                         *)
(* Numbers.  The filter computes with real numbers; they are modelled as   *)
(* exact rationals <<n, d>> (d > 0, lowest terms).  IEEE-754 rounding is   *)
(* not modelled.  Confidences are hundredths (0.65 is 65).  Times of the   *)
(* orchestrator are integer ticks of performance.now().                    *)
(***************************************************************************)
EXTENDS Integers, Sequences, FiniteSets, TLC

\* ------------------------------------------------------------------------
\* Bounds of the exploration
\* ------------------------------------------------------------------------
MaxT == 3            \* filter harness: timestamps are 0..MaxT (seconds)
MaxDen == 40         \* filter harness: a state is updated further only
                     \* while its denominators are at most MaxDen
MaxGateSeq == 4      \* gate harness: length of a confidence sequence
MaxClock == 3        \* orchestrator: performance.now() runs over 0..MaxClock
MaxVideoTime == 1    \* orchestrator: video.currentTime runs over 0..MaxVideoTime

\* ------------------------------------------------------------------------
\* Exact rational arithmetic
\* ------------------------------------------------------------------------
NULL == <<>>

Abs(n) == IF n < 0 THEN -n ELSE n

RECURSIVE GCD(_, _)
GCD(a, b) == IF b = 0 THEN a ELSE GCD(b, a % b)

Norm(n, d) ==
    LET s == IF d < 0 THEN -1 ELSE 1
        g == GCD(Abs(n), Abs(d))
    IN  <<(s * n) \div g, (s * d) \div g>>

R(n) == <<n, 1>>
Num(a) == a[1]
Den(a) == a[2]

RAdd(a, b) ==
    LET g == GCD(Den(a), Den(b))
        l == (Den(a) \div g) * Den(b)
    IN  Norm(Num(a) * (l \div Den(a)) + Num(b) * (l \div Den(b)), l)

RNeg(a) == <<-Num(a), Den(a)>>
RSub(a, b) == RAdd(a, RNeg(b))

RMul(a, b) ==
    LET g1 == GCD(Abs(Num(a)), Den(b))
        g2 == GCD(Abs(Num(b)), Den(a))
    IN  Norm((Num(a) \div g1) * (Num(b) \div g2),
             (Den(a) \div g2) * (Den(b) \div g1))

RDiv(a, b) == RMul(a, Norm(Den(b), Num(b)))
RAbs(a) == <<Abs(Num(a)), Den(a)>>
RLe(a, b) == Num(RSub(a, b)) <= 0
RLt(a, b) == Num(RSub(a, b)) < 0
RMin(a, b) == IF RLe(a, b) THEN a ELSE b
RMax(a, b) == IF RLe(a, b) THEN b ELSE a

\* 2 * Math.PI, as the rational 25/4 = 6.25
TwoPi == <<25, 4>>

\* ------------------------------------------------------------------------
\* OneEuroFilter (src/main.js 16-66)
\* ------------------------------------------------------------------------
\* constructor(minCutoff, beta, dCutoff): the memory starts null
OneEuroFilter(minCutoff, beta, dCutoff) ==
    [minCutoff |-> minCutoff, beta |-> beta, dCutoff |-> dCutoff,
     xPrev |-> NULL, dxPrev |-> NULL, tPrev |-> NULL]

\* smoothingFactor(te, cutoff): r = 2*pi*cutoff*te; r / (r + 1)
smoothingFactor_noDiv(te, cutoff) == RMul(RMul(TwoPi, cutoff), te)

smoothingFactor(te, cutoff) ==
    LET r == RMul(RMul(TwoPi, cutoff), te)
    IN  RDiv(r, RAdd(r, R(1)))

\* the branch of filter() taken when te <= 0: return xPrev, store nothing
absorb_storesTime(f, x, t) ==
    [state |-> [f EXCEPT !.tPrev = t], ret |-> f.xPrev, divisor |-> NULL]

absorb(f, x, t) ==
    [state |-> f, ret |-> f.xPrev, divisor |-> NULL]

\* the first call of an instance: store x, 0, t and return x
firstCall_noTime(f, x, t) ==
    [state |-> [f EXCEPT !.xPrev = x, !.dxPrev = R(0)],
     ret |-> x, divisor |-> NULL]

firstCall(f, x, t) ==
    [state |-> [f EXCEPT !.xPrev = x, !.dxPrev = R(0), !.tPrev = t],
     ret |-> x, divisor |-> NULL]

\* the guard "if (te <= 0) return this.xPrev"
elapsedGuard_zeroOnly(te) == te = R(0)

elapsedGuard(te) == RLe(te, R(0))

\* filter(x, t): result is the new state, the returned value and the
\* divisor of the derivative division (NULL when no division is made)
filter(f, x, t) ==
    IF f.tPrev = NULL THEN firstCall(f, x, t)
    ELSE LET te == RSub(t, f.tPrev) IN
         IF elapsedGuard(te) THEN absorb(f, x, t)
         ELSE LET dx == RDiv(RSub(x, f.xPrev), te)
                  alphaDx == smoothingFactor(te, f.dCutoff)
                  dxFiltered == RAdd(RMul(alphaDx, dx),
                                     RMul(RSub(R(1), alphaDx), f.dxPrev))
                  cutoff == RAdd(f.minCutoff, RMul(f.beta, RAbs(dxFiltered)))
                  alpha == smoothingFactor(te, cutoff)
                  xFiltered == RAdd(RMul(alpha, x),
                                    RMul(RSub(R(1), alpha), f.xPrev))
              IN  [state |-> [f EXCEPT !.xPrev = xFiltered,
                                       !.dxPrev = dxFiltered,
                                       !.tPrev = t],
                   ret |-> xFiltered, divisor |-> te]

\* reset(): clear the memory
reset(f) == [f EXCEPT !.xPrev = NULL, !.dxPrev = NULL, !.tPrev = NULL]

\* ------------------------------------------------------------------------
\* OneEuroFilter3D (src/main.js 69-90)
\* ------------------------------------------------------------------------
\* constructor(minCutoff, beta): three scalar filters, dCutoff by default
OneEuroFilter3D(minCutoff, beta) ==
    [xFilter |-> OneEuroFilter(minCutoff, beta, R(1)),
     yFilter |-> OneEuroFilter(minCutoff, beta, R(1)),
     zFilter |-> OneEuroFilter(minCutoff, beta, R(1))]

\* filter(point, t): result is the new state and the returned point
filter3D_crossed(f, point, t) ==
    LET x == filter(f.xFilter, point.x, t)
        y == filter(f.yFilter, point.x, t)
        z == filter(f.zFilter, point.z, t)
    IN  [state |-> [xFilter |-> x.state, yFilter |-> y.state,
                    zFilter |-> z.state],
         ret |-> [x |-> x.ret, y |-> y.ret, z |-> z.ret,
                  visibility |-> point.visibility]]

filter3D(f, point, t) ==
    LET x == filter(f.xFilter, point.x, t)
        y == filter(f.yFilter, point.y, t)
        z == filter(f.zFilter, point.z, t)
    IN  [state |-> [xFilter |-> x.state, yFilter |-> y.state,
                    zFilter |-> z.state],
         ret |-> [x |-> x.ret, y |-> y.ret, z |-> z.ret,
                  visibility |-> point.visibility]]

\* ------------------------------------------------------------------------
\* Hysteresis gate (src/main.js 12-13, 157-158, 2307-2323)
\* ------------------------------------------------------------------------
VIS_THRESHOLD_ON == 65
VIS_THRESHOLD_OFF == 45

\* a landmark without a visibility field
Undefined == -1

\* landmarks[15].visibility ?? 1.0
wristVis_missingIsZero(visibility) ==
    IF visibility = Undefined THEN 0 ELSE visibility

wristVis(visibility) == IF visibility = Undefined THEN 100 ELSE visibility

\* if (!active && vis > ON) active = true;
\* else if (active && vis < OFF) active = false;
HysteresisGate_noDeadZone(active, vis) == vis > VIS_THRESHOLD_ON

HysteresisGate_inclusive(active, vis) ==
    IF ~active /\ vis >= VIS_THRESHOLD_ON THEN TRUE
    ELSE IF active /\ vis <= VIS_THRESHOLD_OFF THEN FALSE
    ELSE active

HysteresisGate(active, vis) ==
    IF ~active /\ vis > VIS_THRESHOLD_ON THEN TRUE
    ELSE IF active /\ vis < VIS_THRESHOLD_OFF THEN FALSE
    ELSE active

\* ------------------------------------------------------------------------
\* Pose filter bank (src/main.js 69-111)
\* ------------------------------------------------------------------------
\* let poseFilters = null.  built counts the executions of line 97; seen
\* gives, for each filter of each array, the landmarks it was called with
NoBank ==
    [constructed |-> FALSE, landmarks |-> NULL, worldLandmarks |-> NULL,
     built |-> 0, seen |-> [landmarks |-> <<>>, worldLandmarks |-> <<>>]]

\* Array.from({ length: 33 }, ...)
PoseLandmarkCount == 33
FilterIds == 0..(PoseLandmarkCount - 1)

\* lines 97-100: two arrays of 33 new filters
newBank(built) ==
    [constructed |-> TRUE, landmarks |-> NULL, worldLandmarks |-> NULL,
     built |-> built + 1,
     seen |-> [landmarks |-> [i \in FilterIds |-> {}],
               worldLandmarks |-> [i \in FilterIds |-> {}]]]

\* The timestamp that filter(x, t) leaves in tPrev (lines 32-40, 56)
filterTime(tPrev, t) ==
    IF tPrev = NULL THEN t
    ELSE IF elapsedGuard(RSub(t, tPrev)) THEN tPrev
    ELSE t

\* landmarks.map((lm, i) => filters[i].filter(lm, t)) on the 33 landmarks
\* of a detected pose: the landmarks each filter has been called with
mapFilter(filters) == [i \in DOMAIN filters |-> filters[i] \cup {i}]

\* The 33 x 3 scalar filters of one array are called with the same
\* timestamp in every pass, so their memory is kept as the tPrev of each
\* array (NULL: constructed, not called yet).  Visibility passes through
\* the filter unchanged (line 81); the filtered coordinates are the subject
\* of the single-instance harness above.
getFilteredPoseLandmarks_rebuilds(bank, hasWorld, timestamp) ==
    LET b == newBank(bank.built)
        t == <<timestamp, 1000>>
    IN  [b EXCEPT !.landmarks = filterTime(@, t),
                  !.worldLandmarks = IF hasWorld THEN filterTime(@, t) ELSE @,
                  !.seen.landmarks = mapFilter(@),
                  !.seen.worldLandmarks = IF hasWorld THEN mapFilter(@) ELSE @]

getFilteredPoseLandmarks(bank, hasWorld, timestamp) ==
    LET b == IF bank.constructed THEN bank ELSE newBank(bank.built)
        t == <<timestamp, 1000>>
    IN  [b EXCEPT !.landmarks = filterTime(@, t),
                  !.worldLandmarks = IF hasWorld THEN filterTime(@, t) ELSE @,
                  !.seen.landmarks = mapFilter(@),
                  !.seen.worldLandmarks = IF hasWorld THEN mapFilter(@) ELSE @]

\* ------------------------------------------------------------------------
\* Rig writes (src/main.js 2103-2147, 2184-2262, 2264-2380, 2401-2454,
\* 2677-2717)
\* ------------------------------------------------------------------------
LERP_SPEED == 12

Bones == {"spine", "head", "neck",
          "rightUpperArm", "rightLowerArm", "rightHand",
          "leftUpperArm", "leftLowerArm", "leftHand"}

\* rigs that loadAvatar may attach: complete, or with joints missing
Rigs == {Bones,
         Bones \ {"rightHand", "neck"},
         Bones \ {"leftUpperArm", "rightLowerArm", "spine"}}

\* let currentVrm (undefined until loadAvatar succeeds)
NoVrm == [loaded |-> FALSE, bones |-> {}]

\* getNormalizedBoneNode(name) is non-null
Has(vrm, bone) == vrm.loaded /\ bone \in vrm.bones

If(c, events) == IF c THEN events ELSE <<>>

\* an entry of the log of one animate() callback
Ev(op, arg) ==
    [op |-> op, arg |-> arg, target |-> "", speed |-> 0, dt |-> 0, coef |-> 0]

\* getLerpFactor(deltaTime, speed) = 1 - exp(-speed * deltaTime), kept as
\* its two arguments: the remaining fraction is e^-(speed * deltaTime)
getLerpFactor(deltaTime, speed) == [speed |-> speed, deltaTime |-> deltaTime]

\* bone.quaternion.slerp(target, factor * coef / 10)
Slerp_position(bone, target, factor, coef) ==
    [op |-> "position", arg |-> bone, target |-> target,
     speed |-> factor.speed, dt |-> factor.deltaTime, coef |-> coef]

Slerp_set(bone, target, factor, coef) ==
    [op |-> "set", arg |-> bone, target |-> target,
     speed |-> 0, dt |-> 0, coef |-> 0]

Slerp(bone, target, factor, coef) ==
    [op |-> "slerp", arg |-> bone, target |-> target,
     speed |-> factor.speed, dt |-> factor.deltaTime, coef |-> coef]

\* resetPose(deltaTime): result is the two activation flags and the writes
resetPose_keepsActive(vrm, left, right, deltaTime) ==
    IF ~vrm.loaded THEN [left |-> left, right |-> right, ev |-> <<>>]
    ELSE LET factor == getLerpFactor(deltaTime, 8) IN
         [left |-> left, right |-> right,
          ev |-> If(Has(vrm, "rightUpperArm"),
                    <<Slerp("rightUpperArm", "relaxRight", factor, 10)>>)
              \o If(Has(vrm, "leftUpperArm"),
                    <<Slerp("leftUpperArm", "relaxLeft", factor, 10)>>)
              \o If(Has(vrm, "rightLowerArm"),
                    <<Slerp("rightLowerArm", "neutral", factor, 10)>>)
              \o If(Has(vrm, "leftLowerArm"),
                    <<Slerp("leftLowerArm", "neutral", factor, 10)>>)]

resetPose(vrm, left, right, deltaTime) ==
    IF ~vrm.loaded THEN [left |-> left, right |-> right, ev |-> <<>>]
    ELSE LET factor == getLerpFactor(deltaTime, 8) IN
         [left |-> FALSE, right |-> FALSE,
          ev |-> If(Has(vrm, "rightUpperArm"),
                    <<Slerp("rightUpperArm", "relaxRight", factor, 10)>>)
              \o If(Has(vrm, "leftUpperArm"),
                    <<Slerp("leftUpperArm", "relaxLeft", factor, 10)>>)
              \o If(Has(vrm, "rightLowerArm"),
                    <<Slerp("rightLowerArm", "neutral", factor, 10)>>)
              \o If(Has(vrm, "leftLowerArm"),
                    <<Slerp("leftLowerArm", "neutral", factor, 10)>>)]

\* solveTwoBoneIK(upperBone, lowerBone, ..., deltaTime): the two writes
solveTwoBoneIK_upperOnlyGuard(vrm, upper, lower, deltaTime) ==
    IF ~Has(vrm, upper) THEN <<>>
    ELSE LET factor == getLerpFactor(deltaTime, LERP_SPEED) IN
         <<Slerp(upper, "ik", factor, 10), Slerp(lower, "ik", factor, 10)>>

solveTwoBoneIK(vrm, upper, lower, deltaTime) ==
    IF ~Has(vrm, upper) \/ ~Has(vrm, lower) THEN <<>>
    ELSE LET factor == getLerpFactor(deltaTime, LERP_SPEED) IN
         <<Slerp(upper, "ik", factor, 10), Slerp(lower, "ik", factor, 10)>>

\* one arm of applyPose (lines 2326-2352 and 2355-2379)
armDriver_ignoresGate(vrm, upper, lower, hand, active, relaxTarget, deltaTime) ==
    LET factor == getLerpFactor(deltaTime, LERP_SPEED) IN
    IF Has(vrm, upper) /\ Has(vrm, lower) /\ Has(vrm, hand)
    THEN <<Ev("solveTwoBoneIK", upper)>>
         \o solveTwoBoneIK(vrm, upper, lower, deltaTime)
    ELSE IF Has(vrm, upper) /\ ~active
    THEN <<Slerp(upper, relaxTarget, factor, 3)>>
         \o If(Has(vrm, lower), <<Slerp(lower, "neutral", factor, 3)>>)
    ELSE <<>>

armDriver(vrm, upper, lower, hand, active, relaxTarget, deltaTime) ==
    LET factor == getLerpFactor(deltaTime, LERP_SPEED) IN
    IF Has(vrm, upper) /\ Has(vrm, lower) /\ Has(vrm, hand) /\ active
    THEN <<Ev("solveTwoBoneIK", upper)>>
         \o solveTwoBoneIK(vrm, upper, lower, deltaTime)
    ELSE IF Has(vrm, upper) /\ ~active
    THEN <<Slerp(upper, relaxTarget, factor, 3)>>
         \o If(Has(vrm, lower), <<Slerp(lower, "neutral", factor, 3)>>)
    ELSE <<>>

\* applyPose(landmarks, worldLandmarks, deltaTime): v15 and v16 are the
\* visibility of landmarks 15 and 16; result is the two activation flags,
\* whether the gates were updated and with which confidences, and the writes
applyPose(vrm, left, right, v15, v16, deltaTime) ==
    IF ~vrm.loaded
    THEN [left |-> left, right |-> right, gated |-> FALSE,
          c15 |-> 0, c16 |-> 0, ev |-> <<>>]
    ELSE LET factor == getLerpFactor(deltaTime, LERP_SPEED)
             leftWristVis == wristVis(v15)
             rightWristVis == wristVis(v16)
             leftArmActive2 == HysteresisGate(left, leftWristVis)
             rightArmActive2 == HysteresisGate(right, rightWristVis)
         IN  [left |-> leftArmActive2, right |-> rightArmActive2,
              gated |-> TRUE, c15 |-> leftWristVis, c16 |-> rightWristVis,
              ev |-> If(Has(vrm, "spine"),
                        <<Slerp("spine", "shoulders", factor, 5)>>)
                  \o <<Ev("gate", "leftArmActive"), Ev("gate", "rightArmActive")>>
                  \o armDriver(vrm, "rightUpperArm", "rightLowerArm",
                               "rightHand", leftArmActive2, "relaxRight",
                               deltaTime)
                  \o armDriver(vrm, "leftUpperArm", "leftLowerArm",
                               "leftHand", rightArmActive2, "relaxLeft",
                               deltaTime)]

\* applyHeadRotation(matrix, deltaTime)
applyHeadRotation(vrm, deltaTime) ==
    IF ~vrm.loaded THEN <<>>
    ELSE LET factor == getLerpFactor(deltaTime, 10) IN
         If(Has(vrm, "head"), <<Slerp("head", "face", factor, 10)>>)
         \o If(Has(vrm, "neck"), <<Slerp("neck", "face", factor, 5)>>)

\* applyHands(landmarksArray, handednesses, deltaTime) for one detected
\* hand: the fixed palm rotation, then the fingers of that hand
applyHands(vrm, categoryName, deltaTime) ==
    IF ~vrm.loaded THEN <<>>
    ELSE LET factor == getLerpFactor(deltaTime, 15)
             prefix == IF categoryName = "Right" THEN "right" ELSE "left"
             handBone == IF prefix = "right" THEN "rightHand" ELSE "leftHand"
         IN  If(Has(vrm, handBone), <<Slerp(handBone, "palm", factor, 3)>>)
             \o <<Ev("applyFingers", prefix)>>

\* if (video.currentTime !== lastVideoTime)
sourceFrameChanged_always(currentTime, last) == TRUE

sourceFrameChanged(currentTime, last) == currentTime # last

\* rotation of every joint after the writes of a log: a joint's rotation is
\* kept as the target it was last blended toward ("bind": never written)
RECURSIVE Written(_, _)
Written(q, events) ==
    IF events = <<>> THEN q
    ELSE LET e == Head(events) IN
         Written(IF e.op = "slerp" THEN [q EXCEPT ![e.arg] = e.target] ELSE q,
                 Tail(events))

\* ------------------------------------------------------------------------
\* Numbers of the geometry (solveTwoBoneIK, applyFingers)
\* ------------------------------------------------------------------------
\* Results of a JavaScript division that are not numbers: 0/0 and x/0
NaN == <<0, 0>>
PosInf == <<1, 0>>
NegInf == <<-1, 0>>

IsNaN(v) == v = NaN
Sign(n) == IF n < 0 THEN -1 ELSE IF n > 0 THEN 1 ELSE 0

\* x / y of two finite numbers
FDiv(x, y) ==
    IF Num(y) = 0 THEN <<Sign(Num(x)), 0>> ELSE RDiv(x, y)

\* THREE.MathUtils.clamp(v, lo, hi) = Math.max(lo, Math.min(hi, v))
clamp(v, lo, hi) ==
    IF IsNaN(v) THEN NaN
    ELSE IF v = PosInf THEN hi
    ELSE IF v = NegInf THEN lo
    ELSE RMax(lo, RMin(hi, v))

\* A real number that may be a square root: rat # NULL is the number
\* itself (possibly NaN); otherwise the number is sgn * sqrt(sq)
Rat(v) == [rat |-> v, sgn |-> 0, sq |-> NULL]
Root(sgn, sq) == [rat |-> NULL, sgn |-> sgn, sq |-> sq]

\* Math.sqrt of a rational with an integer numerator and denominator root
RECURSIVE ISqrtFrom(_, _)
ISqrtFrom(n, k) == IF (k + 1) * (k + 1) > n THEN k ELSE ISqrtFrom(n, k + 1)
ISqrt(n) == ISqrtFrom(n, 0)
IsSquare(n) == ISqrt(n) * ISqrt(n) = n
Sqrt(q) ==
    IF IsSquare(Num(q)) /\ IsSquare(Den(q))
    THEN Rat(<<ISqrt(Num(q)), ISqrt(Den(q))>>)
    ELSE Root(1, q)

\* x * x of a real
Square(x) == IF x.rat # NULL THEN RMul(x.rat, x.rat) ELSE x.sq

\* num / (k * x) for rationals num, k > 0 and a real x >= 0
DivByReal(num, k, x) ==
    IF x.rat # NULL THEN Rat(FDiv(num, RMul(k, x.rat)))
    ELSE IF Num(x.sq) = 0 THEN Rat(FDiv(num, R(0)))
    ELSE Root(Sign(Num(num)),
              RDiv(RMul(num, num), RMul(RMul(k, k), x.sq)))

\* clamp(x, -1, 1) of a real
clampUnit(x) ==
    IF x.rat # NULL THEN Rat(clamp(x.rat, R(-1), R(1)))
    ELSE IF RLt(R(1), x.sq) THEN Rat(R(x.sgn))
    ELSE x

\* An angle of [0, pi] is kept as its cosine: Math.acos(x) for x in [-1, 1]
acos(x) == [cos |-> x]
IsNaNAngle(angle) == angle.cos.rat # NULL /\ IsNaN(angle.cos.rat)
AngleIs(angle, cosine) == angle.cos.rat = cosine

\* Math.PI - angle
piMinus(angle) ==
    [cos |-> IF angle.cos.rat # NULL
             THEN Rat(IF IsNaN(angle.cos.rat) THEN NaN ELSE RNeg(angle.cos.rat))
             ELSE Root(-angle.cos.sgn, angle.cos.sq)]

\* THREE.Vector3 with integer coordinates d (in thousandths where a unit
\* matters)
Zero3 == <<0, 0, 0>>
dot(u, v) == u[1] * v[1] + u[2] * v[2] + u[3] * v[3]
lengthSq(v) == dot(v, v)
crossVectors(u, v) ==
    <<u[2] * v[3] - u[3] * v[2],
      u[3] * v[1] - u[1] * v[3],
      u[1] * v[2] - u[2] * v[1]>>
negate(v) == <<-v[1], -v[2], -v[3]>>

\* A vector is kept as its direction d (integer coordinates) and its
\* length len (a real); the zero vector has d = Zero3 and length 0
V3(d, unit) == [d |-> d, len |-> Sqrt(RMul(R(lengthSq(d)), RMul(unit, unit)))]

\* v.normalize(): divideScalar(length() || 1)
normalize(v) == IF v.d = Zero3 THEN v ELSE [d |-> v.d, len |-> Rat(R(1))]

\* v.normalize().multiplyScalar(l)
setLength(v, l) ==
    IF v.d = Zero3 \/ Num(l) = 0 THEN [d |-> Zero3, len |-> Rat(R(0))]
    ELSE [d |-> IF Num(l) < 0 THEN negate(v.d) ELSE v.d, len |-> Rat(RAbs(l))]

\* x > r and x < r for a real x >= 0 and a rational r
RealGt(x, r) ==
    IF x.rat # NULL THEN RLt(r, x.rat)
    ELSE Num(r) < 0 \/ RLt(RMul(r, r), x.sq)

RealLt(x, r) ==
    IF x.rat # NULL THEN RLt(x.rat, r)
    ELSE Num(r) > 0 /\ RLt(x.sq, RMul(r, r))

\* ------------------------------------------------------------------------
\* solveTwoBoneIK, the computation (src/main.js 2184-2262)
\* ------------------------------------------------------------------------
epsilon == <<1, 1000>>

\* step 1 (lines 2191-2203): the clamped distance and the rescaled target
clampTarget_noClamp(a, b, targetPos) ==
    [targetPos |-> targetPos, dist |-> targetPos.len]

clampTarget_noRescale(a, b, targetPos) ==
    LET dist == targetPos.len
        maxLen == RSub(RAdd(a, b), epsilon)
        minLen == RAdd(RAbs(RSub(a, b)), epsilon)
    IN  IF RealGt(dist, maxLen)
        THEN [targetPos |-> targetPos, dist |-> Rat(maxLen)]
        ELSE IF RealLt(dist, minLen)
        THEN [targetPos |-> targetPos, dist |-> Rat(minLen)]
        ELSE [targetPos |-> targetPos, dist |-> dist]

clampTarget(a, b, targetPos) ==
    LET dist == targetPos.len
        maxLen == RSub(RAdd(a, b), epsilon)
        minLen == RAdd(RAbs(RSub(a, b)), epsilon)
    IN  IF RealGt(dist, maxLen)
        THEN [targetPos |-> setLength(targetPos, maxLen), dist |-> Rat(maxLen)]
        ELSE IF RealLt(dist, minLen)
        THEN [targetPos |-> setLength(targetPos, minLen), dist |-> Rat(minLen)]
        ELSE [targetPos |-> targetPos, dist |-> dist]

\* steps 2 and 3 (lines 2205-2212): the two angles of the triangle a, b, c
shoulderAngle(a, b, c) ==
    LET num == RSub(RAdd(RMul(a, a), Square(c)), RMul(b, b))
        cosShoulderAngle == DivByReal(num, RMul(R(2), a), c)
    IN  acos(clampUnit(cosShoulderAngle))

elbowAngle(a, b, c) ==
    LET cosElbowAngle ==
            FDiv(RSub(RAdd(RMul(a, a), RMul(b, b)), Square(c)),
                 RMul(RMul(R(2), a), b))
    IN  acos(Rat(clamp(cosElbowAngle, R(-1), R(1))))

\* step 4 (lines 2214-2228): the normal of the bend plane.  The squared
\* length of the cross product of two unit vectors with directions u and v
unitCrossLengthSq(u, v) ==
    IF u = Zero3 \/ v = Zero3 THEN R(0)
    ELSE Norm(lengthSq(crossVectors(u, v)), lengthSq(u) * lengthSq(v))

up == <<0, 1, 0>>
forward == <<0, 0, 1>>

\* planeNormal.lengthSq() < 0.0001, for a squared length q
degenerate(q) == Num(q) <= (Den(q) - 1) \div 10000

planeNormal_upOnly(targetPos, polePos) ==
    LET dirToTarget == normalize(targetPos).d
        dirToPole == normalize(polePos).d
    IN  IF ~degenerate(unitCrossLengthSq(dirToTarget, dirToPole))
        THEN [d |-> crossVectors(dirToTarget, dirToPole), from |-> "pole"]
        ELSE [d |-> crossVectors(dirToTarget, up), from |-> "up"]

planeNormal(targetPos, polePos) ==
    LET dirToTarget == normalize(targetPos).d
        dirToPole == normalize(polePos).d
    IN  IF ~degenerate(unitCrossLengthSq(dirToTarget, dirToPole))
        THEN [d |-> crossVectors(dirToTarget, dirToPole), from |-> "pole"]
        ELSE IF ~degenerate(unitCrossLengthSq(dirToTarget, up))
        THEN [d |-> crossVectors(dirToTarget, up), from |-> "up"]
        ELSE [d |-> crossVectors(dirToTarget, forward), from |-> "forward"]

\* A joint rotation of the solver: the rest rotation, a rotation the solver
\* aims at, or the result of quaternion.slerp(target, factor)
Identity == [kind |-> "identity"]
Absent == [kind |-> "absent"]

\* steps 5-7 (lines 2230-2246): the upper joint's local rotation is fixed
\* by the rest axis, the target direction, the plane normal and the
\* shoulder angle; THREE's normalize() and setFromUnitVectors() return
\* finite values for every finite argument, so it is NaN exactly when the
\* shoulder angle is
qUpperLocal(boneAxis, dirToTarget, normal, angle) ==
    [kind |-> "upper", boneAxis |-> boneAxis, dirToTarget |-> dirToTarget,
     planeNormal |-> normal.d, angle |-> angle, nan |-> IsNaNAngle(angle)]

\* step 8 (lines 2250-2259): the hinge rotation of the lower joint about
\* the local y axis by -bendAngle * (boneAxis.x < 0 ? 1 : -1)
qLowerLocal(boneAxis, elbow) ==
    LET bendAngle == piMinus(elbow) IN
    [kind |-> "hinge", axis |-> up,
     sign |-> IF boneAxis[1] < 0 THEN -1 ELSE 1,
     angle |-> bendAngle, nan |-> IsNaNAngle(bendAngle)]

\* bone.quaternion.slerp(target, factor): no change when factor is 0
slerp_copy(q, target, factor) == target

slerp(q, target, factor) ==
    IF factor.speed = 0 \/ factor.deltaTime = R(0) THEN q
    ELSE [kind |-> "slerp", from |-> q, to |-> target, factor |-> factor]

\* no solve
NoSolve == [solved |-> FALSE]

\* solveTwoBoneIK(upperBone, lowerBone, upperLength, lowerLength, targetPos,
\* polePos, boneAxis, deltaTime): the rotations of the two joints after the
\* call and the values computed on the way
twoBoneIK(upperBone, lowerBone, a, b, targetPos, polePos, boneAxis, deltaTime) ==
    IF upperBone = Absent \/ lowerBone = Absent
    THEN [upperBone |-> upperBone, lowerBone |-> lowerBone, log |-> NoSolve]
    ELSE LET factor == getLerpFactor(deltaTime, LERP_SPEED)
             clamped == clampTarget(a, b, targetPos)
             c == clamped.dist
             shoulder == shoulderAngle(a, b, c)
             elbow == elbowAngle(a, b, c)
             normal == planeNormal(clamped.targetPos, polePos)
         IN  [upperBone |->
                  slerp(upperBone,
                        qUpperLocal(boneAxis, normalize(clamped.targetPos).d,
                                    normal, shoulder),
                        factor),
              lowerBone |-> slerp(lowerBone, qLowerLocal(boneAxis, elbow), factor),
              log |-> [solved |-> TRUE, targetPos |-> clamped.targetPos,
                       c |-> c, shoulderAngle |-> shoulder,
                       elbowAngle |-> elbow, planeNormal |-> normal]]

\* ------------------------------------------------------------------------
\* mpToVRM (src/main.js 2094-2100)
\* ------------------------------------------------------------------------
\* mpToVRM(landmark, mirror = true): the vector returned and the landmark as
\* the call leaves it; args holds the arguments passed after the landmark
mpToVRM_alwaysMirror(landmark, args) ==
    [ret |-> [x |-> RNeg(landmark.x), y |-> RNeg(landmark.y),
              z |-> RNeg(landmark.z)],
     landmark |-> landmark]

mpToVRM(landmark, args) ==
    LET mirror == IF args = <<>> THEN TRUE ELSE args[1]
    IN  [ret |-> [x |-> IF mirror THEN RNeg(landmark.x) ELSE landmark.x,
                  y |-> RNeg(landmark.y),
                  z |-> RNeg(landmark.z)],
         landmark |-> landmark]

\* ------------------------------------------------------------------------
\* applyFingers: the curl of one finger (src/main.js 2456-2573)
\* ------------------------------------------------------------------------
\* u.distanceTo(v), for points at a rational distance
sub(u, v) == <<u[1] - v[1], u[2] - v[2], u[3] - v[3]>>
distanceTo(u, v) == Sqrt(R(lengthSq(sub(u, v)))).rat

\* A curl value: the number rat, or 1.5 * base^0.7 when rat is NULL
Exactly(v) == [rat |-> v, base |-> NULL]
Reshaped(x) == [rat |-> NULL, base |-> x]

\* Math.pow(curl, 0.7) * 1.5 for curl in [0, 1]
reshape(x) ==
    IF IsNaN(x) THEN Exactly(NaN)
    ELSE IF Num(x) = 0 THEN Exactly(R(0))
    ELSE IF x = R(1) THEN Exactly(<<3, 2>>)
    ELSE Reshaped(x)

\* y >= 1: 1.5 * x^0.7 >= 1 iff x^7 * 3^10 >= 2^10
AtLeastOne(y) ==
    IF y.rat # NULL THEN ~IsNaN(y.rat) /\ RLe(R(1), y.rat)
    ELSE Num(y.base)^7 * 59049 >= 1024 * Den(y.base)^7

\* THREE.MathUtils.clamp(y, 0, 1) of a curl value
clamp01(y) ==
    IF y.rat # NULL /\ IsNaN(y.rat) THEN y
    ELSE IF AtLeastOne(y) THEN Exactly(R(1))
    ELSE IF y.rat # NULL /\ RLt(y.rat, R(0)) THEN Exactly(R(0))
    ELSE y

\* lines 2479-2498: the curl of a finger with the joints mcp, pip, dip, tip
fingerCurl_noClamp(mcpPos, pipPos, dipPos, tipPos) ==
    LET seg1 == distanceTo(mcpPos, pipPos)
        seg2 == distanceTo(pipPos, dipPos)
        seg3 == distanceTo(dipPos, tipPos)
        totalLength == RAdd(RAdd(seg1, seg2), seg3)
        straightDist == distanceTo(mcpPos, tipPos)
        ratio == FDiv(straightDist, totalLength)
        curl == clamp(IF IsNaN(ratio) THEN NaN ELSE RSub(R(1), ratio),
                      R(0), R(1))
    IN  [totalLength |-> totalLength, straightDist |-> straightDist,
         raw |-> curl, curl |-> reshape(curl)]

fingerCurl(mcpPos, pipPos, dipPos, tipPos) ==
    LET seg1 == distanceTo(mcpPos, pipPos)
        seg2 == distanceTo(pipPos, dipPos)
        seg3 == distanceTo(dipPos, tipPos)
        totalLength == RAdd(RAdd(seg1, seg2), seg3)
        straightDist == distanceTo(mcpPos, tipPos)
        ratio == FDiv(straightDist, totalLength)
        curl == clamp(IF IsNaN(ratio) THEN NaN ELSE RSub(R(1), ratio),
                      R(0), R(1))
    IN  [totalLength |-> totalLength, straightDist |-> straightDist,
         raw |-> curl, curl |-> clamp01(reshape(curl))]

\* ------------------------------------------------------------------------
\* applyPose: the gate and the IK target and pole of both arms
\* (src/main.js 2264-2380)
\* ------------------------------------------------------------------------
\* x * y of two JavaScript numbers
FMul(x, y) ==
    IF IsNaN(x) \/ IsNaN(y) THEN NaN
    ELSE IF Den(x) = 0 \/ Den(y) = 0
    THEN IF Num(x) = 0 \/ Num(y) = 0 THEN NaN
         ELSE <<Sign(Num(x)) * Sign(Num(y)), 0>>
    ELSE RMul(x, y)

\* v.multiplyScalar(scale) of a vector with integer coordinates
multiplyScalar(v, scale) ==
    [i \in 1..3 |-> FMul(R(v[i]), scale)]

\* getPos(index): mpToVRM(source[index]), source = worldLandmarks || landmarks
getPos(landmarks, worldLandmarks, index) ==
    LET source == IF worldLandmarks # NULL THEN worldLandmarks ELSE landmarks
        p == mpToVRM(source[index], <<>>).ret
    IN  <<Num(p.x), Num(p.y), Num(p.z)>>

\* bone.position.length() of a joint of the rig
positionLength(vrm, bone) == vrm.position[bone]

\* lines 2326-2352 and 2355-2379: one arm of the rig, driven by the
\* landmarks shoulder, elbow and wrist
armIK_sharedShoulder(vrm, upper, lower, hand, active, landmarks, worldLandmarks, shoulder, elbow, wrist) ==
    IF Has(vrm, upper) /\ Has(vrm, lower) /\ Has(vrm, hand) /\ active
    THEN LET upperLen == positionLength(vrm, lower)
             lowerLen == positionLength(vrm, hand)
             mpShoulder == getPos(landmarks, worldLandmarks, 11)
             mpElbow == getPos(landmarks, worldLandmarks, elbow)
             mpWrist == getPos(landmarks, worldLandmarks, wrist)
             mpArmLen == RAdd(distanceTo(mpShoulder, mpElbow),
                              distanceTo(mpElbow, mpWrist))
             avatarArmLen == RAdd(upperLen, lowerLen)
             scale == FDiv(avatarArmLen, mpArmLen)
         IN  [branch |-> "solveTwoBoneIK", upperLen |-> upperLen,
              lowerLen |-> lowerLen, mpArmLen |-> mpArmLen, scale |-> scale,
              target |-> multiplyScalar(sub(mpWrist, mpShoulder), scale),
              pole |-> multiplyScalar(sub(mpElbow, mpShoulder), scale)]
    ELSE IF Has(vrm, upper) /\ ~active
    THEN [branch |-> "relax"]
    ELSE [branch |-> "none"]

armIK(vrm, upper, lower, hand, active, landmarks, worldLandmarks, shoulder, elbow, wrist) ==
    IF Has(vrm, upper) /\ Has(vrm, lower) /\ Has(vrm, hand) /\ active
    THEN LET upperLen == positionLength(vrm, lower)
             lowerLen == positionLength(vrm, hand)
             mpShoulder == getPos(landmarks, worldLandmarks, shoulder)
             mpElbow == getPos(landmarks, worldLandmarks, elbow)
             mpWrist == getPos(landmarks, worldLandmarks, wrist)
             mpArmLen == RAdd(distanceTo(mpShoulder, mpElbow),
                              distanceTo(mpElbow, mpWrist))
             avatarArmLen == RAdd(upperLen, lowerLen)
             scale == FDiv(avatarArmLen, mpArmLen)
         IN  [branch |-> "solveTwoBoneIK", upperLen |-> upperLen,
              lowerLen |-> lowerLen, mpArmLen |-> mpArmLen, scale |-> scale,
              target |-> multiplyScalar(sub(mpWrist, mpShoulder), scale),
              pole |-> multiplyScalar(sub(mpElbow, mpShoulder), scale)]
    ELSE IF Has(vrm, upper) /\ ~active
    THEN [branch |-> "relax"]
    ELSE [branch |-> "none"]

\* lines 2303-2379 with a rig loaded: left and right are leftArmActive and
\* rightArmActive before the pass; the result is the two flags after it
\* and what each arm of the rig is driven with
poseArms(vrm, left, right, landmarks, worldLandmarks) ==
    LET leftWristVis == wristVis(landmarks[15].visibility)
        rightWristVis == wristVis(landmarks[16].visibility)
        leftArmActive2 == HysteresisGate(left, leftWristVis)
        rightArmActive2 == HysteresisGate(right, rightWristVis)
    IN  [leftArmActive |-> leftArmActive2,
         rightArmActive |-> rightArmActive2,
         rightArm |-> armIK(vrm, "rightUpperArm", "rightLowerArm",
                            "rightHand", leftArmActive2, landmarks,
                            worldLandmarks, 11, 13, 15),
         leftArm |-> armIK(vrm, "leftUpperArm", "leftLowerArm",
                           "leftHand", rightArmActive2, landmarks,
                           worldLandmarks, 12, 14, 16)]

\* a write bone.quaternion.slerp(rotation, factor), the rotation being an
\* Euler rotation about one axis by sign * curl * maxAngle (maxAngle in
\* hundredths of pi)
CurlWrite(bone, axis, sign, curl, maxAngle, factor) ==
    [bone |-> bone, axis |-> axis, sign |-> sign, curl |-> curl,
     maxAngle |-> maxAngle, factor |-> factor]

boneTypes == <<"Proximal", "Intermediate", "Distal">>

\* applyFingerCurl(prefix, fingerName, curl, factor) on a rig with the
\* finger bones of the types in present
applyFingerCurl(prefix, fingerName, curl, factor, present) ==
    LET maxAngles == <<45, 55, 45>>
        isRight == prefix = "right"
        write(idx) ==
            If(boneTypes[idx] \in present,
               <<CurlWrite(<<prefix, fingerName, boneTypes[idx]>>, "z",
                           IF isRight THEN 1 ELSE -1, curl, maxAngles[idx],
                           factor)>>)
    IN  write(1) \o write(2) \o write(3)

\* applyThumbCurl(prefix, curl, factor)
applyThumbCurl(prefix, curl, factor, present) ==
    LET maxAngles == <<40, 45, 40>>
        isRight == prefix = "right"
        write(idx) ==
            If(boneTypes[idx] \in present,
               <<CurlWrite(<<prefix, "Thumb", boneTypes[idx]>>, "y",
                           IF isRight THEN -1 ELSE 1, curl, maxAngles[idx],
                           factor)>>)
    IN  write(1) \o write(2) \o write(3)

\* the body of the loop of applyFingers(prefix, landmarks, factor) for one
\* finger
applyFinger(prefix, fingerName, joints, factor, present) ==
    LET c == fingerCurl(joints[1], joints[2], joints[3], joints[4])
        isThumb == fingerName = "Thumb"
    IN  [totalLength |-> c.totalLength, straightDist |-> c.straightDist,
         raw |-> c.raw, curl |-> c.curl,
         writes |-> IF isThumb
                    THEN applyThumbCurl(prefix, c.curl, factor, present)
                    ELSE applyFingerCurl(prefix, fingerName, c.curl, factor,
                                         present)]

\* ------------------------------------------------------------------------
\* State
\* ------------------------------------------------------------------------
VARIABLES
    \* one OneEuroFilter instance driven by arbitrary calls
    flt,        \* the instance: parameters and xPrev, dxPrev, tPrev
    out,        \* value returned by the last filter() call (NULL: none yet)
    call,       \* the last call made on the instance, and the state before it
    \* one limb's gate driven by arbitrary confidences
    gate,       \* [active, inputs, states]: gate state and its history
    \* the page: globals of main.js and their environment
    clock,                  \* performance.now() at the last callback
    lastFrameTime,          \* line 119
    lastVideoTime,          \* line 118
    videoReady,             \* video && video.readyState >= 2
    videoTime,              \* video.currentTime
    mediapipe,              \* landmarkers created so far: face, pose, hand
    currentVrm,             \* line 117
    BODY_TRACKING_ENABLED,  \* line 127
    leftArmActive,          \* line 157
    rightArmActive,         \* line 158
    poseFilters,            \* line 93
    quat,                   \* rotation of the rig's joints
    frame,                  \* what the last handler did (log)
    lastPassTime,           \* performance.now() of the last retargeting pass (log)
    \* one call of the IK solver on arbitrary arguments
    ik,                     \* the arguments and the result of the call
    \* one finger of applyFingers on arbitrary joints
    finger,                 \* the arguments, the curl and the writes
    \* mpToVRM on arbitrary points
    point,                  \* the argument, the result and the second result
    \* one OneEuroFilter3D instance under arbitrary calls
    f3,                     \* the instance and its last call
    \* the arms of applyPose under arbitrary landmarks
    arms,                   \* the rig, the two flags and the last pass
    \* recording
    rec,                    \* mediaRecorder, composite canvas, loop, chunks
    \* microphone, captions, audio meters and screen capture
    mic                     \* the globals and the suspended async calls

fvars == <<flt, out, call>>
gvars == <<gate>>
ovars == <<clock, lastFrameTime, lastVideoTime, videoReady, videoTime,
           mediapipe, currentVrm, BODY_TRACKING_ENABLED, leftArmActive,
           rightArmActive, poseFilters, quat, frame, lastPassTime>>
mvars == <<rec, mic>>
nvars == <<f3, arms, mvars>>
hvars == <<ik, finger, point, nvars>>
vars == <<flt, out, call, gate, clock, lastFrameTime, lastVideoTime,
          videoReady, videoTime, mediapipe, currentVrm,
          BODY_TRACKING_ENABLED, leftArmActive, rightArmActive, poseFilters,
          quat, frame, lastPassTime, ik, finger, point, f3, arms, rec, mic>>

\* ------------------------------------------------------------------------
\* The page: animate(), the Pose button, and the asynchronous set-up
\* ------------------------------------------------------------------------
NoFrame ==
    [action |-> "none", kind |-> "none", deltaTime |-> 0, ready |-> FALSE,
     videoTime |-> 0, lastBefore |-> 0, enabled |-> FALSE,
     poseTracker |-> FALSE, poseDetected |-> FALSE,
     wasLeft |-> FALSE, wasRight |-> FALSE,
     gated |-> FALSE, c15 |-> 0, c16 |-> 0, trace |-> <<>>]

Did(name) == [NoFrame EXCEPT !.action = name]

PageInit ==
    /\ clock = 0
    /\ lastFrameTime = 0
    /\ lastVideoTime = -1
    /\ videoReady = FALSE
    /\ videoTime = 0
    /\ mediapipe = 0
    /\ currentVrm = NoVrm
    /\ BODY_TRACKING_ENABLED = FALSE
    /\ leftArmActive = FALSE
    /\ rightArmActive = FALSE
    /\ poseFilters = NoBank
    /\ quat = [b \in Bones |-> "bind"]
    /\ frame = NoFrame
    /\ lastPassTime = -1

\* ticks of performance.now() between two display callbacks
ElapsedVals == {1, 2}

\* results of the trackers for one source frame: face blendshapes and
\* matrix, handedness of a detected hand, a detected pose with or without
\* world landmarks and the visibility of landmarks 15 and 16
PoseVis == {30, 45, 70, Undefined}

NoInput ==
    [blend |-> FALSE, matrix |-> FALSE, hand |-> "none", pose |-> FALSE,
     world |-> FALSE, v15 |-> Undefined, v16 |-> Undefined]

Inputs ==
    { [blend |-> f[1], matrix |-> f[2], hand |-> h, pose |-> p[1],
       world |-> p[2], v15 |-> p[3], v16 |-> p[4]] :
        f \in {<<FALSE, FALSE>>, <<TRUE, TRUE>>},
        h \in {"none", "Right"},
        p \in {<<FALSE, FALSE, Undefined, Undefined>>}
              \cup ({TRUE} \X {TRUE} \X PoseVis \X PoseVis)
              \cup {<<TRUE, FALSE, 70, Undefined>>} }

\* setupWebcam / toggleCamera: a stream is attached and has data
VideoStart ==
    /\ ~videoReady
    /\ videoReady' = TRUE
    /\ videoTime' = 0
    /\ frame' = Did("videoStart")
    /\ UNCHANGED <<clock, lastFrameTime, lastVideoTime, mediapipe,
                   currentVrm, BODY_TRACKING_ENABLED, leftArmActive,
                   rightArmActive, poseFilters, quat, lastPassTime>>

\* toggleCamera / track.onended: video.srcObject = null
VideoStop ==
    /\ videoReady
    /\ videoReady' = FALSE
    /\ frame' = Did("videoStop")
    /\ UNCHANGED <<clock, lastFrameTime, lastVideoTime, videoTime, mediapipe,
                   currentVrm, BODY_TRACKING_ENABLED, leftArmActive,
                   rightArmActive, poseFilters, quat, lastPassTime>>

\* the camera delivers a new source frame
VideoFrame ==
    /\ videoReady
    /\ videoTime < MaxVideoTime
    /\ videoTime' = videoTime + 1
    /\ frame' = Did("videoFrame")
    /\ UNCHANGED <<clock, lastFrameTime, lastVideoTime, videoReady, mediapipe,
                   currentVrm, BODY_TRACKING_ENABLED, leftArmActive,
                   rightArmActive, poseFilters, quat, lastPassTime>>

\* setupMediaPipe: faceLandmarker, poseLandmarker, handLandmarker are
\* assigned in this order, each after an await (lines 1923-1950)
setupMediaPipe ==
    /\ mediapipe < 3
    /\ mediapipe' = mediapipe + 1
    /\ frame' = Did("setupMediaPipe")
    /\ UNCHANGED <<clock, lastFrameTime, lastVideoTime, videoReady, videoTime,
                   currentVrm, BODY_TRACKING_ENABLED, leftArmActive,
                   rightArmActive, poseFilters, quat, lastPassTime>>

\* loadAvatar: currentVrm = vrm (line 1974)
loadAvatar(rig) ==
    /\ ~currentVrm.loaded
    /\ currentVrm' = [loaded |-> TRUE, bones |-> rig]
    /\ frame' = Did("loadAvatar")
    /\ UNCHANGED <<clock, lastFrameTime, lastVideoTime, videoReady, videoTime,
                   mediapipe, BODY_TRACKING_ENABLED, leftArmActive,
                   rightArmActive, poseFilters, quat, lastPassTime>>

\* click on the Pose button (lines 848-856)
toggleBody_keepsActive ==
    /\ BODY_TRACKING_ENABLED' = ~BODY_TRACKING_ENABLED
    /\ UNCHANGED <<leftArmActive, rightArmActive>>
    /\ frame' = [Did("toggleBody") EXCEPT !.wasLeft = leftArmActive,
                                            !.wasRight = rightArmActive]
    /\ UNCHANGED <<clock, lastFrameTime, lastVideoTime, videoReady, videoTime,
                   mediapipe, currentVrm, poseFilters, quat, lastPassTime>>

toggleBody ==
    /\ BODY_TRACKING_ENABLED' = ~BODY_TRACKING_ENABLED
    /\ leftArmActive' = IF ~BODY_TRACKING_ENABLED' THEN FALSE ELSE leftArmActive
    /\ rightArmActive' = IF ~BODY_TRACKING_ENABLED' THEN FALSE ELSE rightArmActive
    /\ frame' = [Did("toggleBody") EXCEPT !.wasLeft = leftArmActive,
                                            !.wasRight = rightArmActive]
    /\ UNCHANGED <<clock, lastFrameTime, lastVideoTime, videoReady, videoTime,
                   mediapipe, currentVrm, poseFilters, quat, lastPassTime>>

\* the retargeting pass of animate() (lines 1997-2076) on tracker results
\* inp: the new globals and the log of calls and writes
retarget(inp, currentTime, deltaTime) ==
    LET faceLandmarker == mediapipe >= 1
        poseLandmarker == mediapipe >= 2
        handLandmarker == mediapipe >= 3
        faceEv ==
            If(faceLandmarker,
               <<Ev("detect", "face")>>
               \o If(inp.blend, <<Ev("applyBlendshapes", "")>>)
               \o If(inp.matrix,
                     <<Ev("applyHeadRotation", "")>>
                     \o applyHeadRotation(currentVrm, deltaTime)))
        handEv ==
            If(handLandmarker,
               <<Ev("detect", "hand")>>
               \o If(inp.hand # "none",
                     <<Ev("applyHands", inp.hand)>>
                     \o applyHands(currentVrm, inp.hand, deltaTime)))
        poseDetected == poseLandmarker /\ inp.pose
        bank == IF poseDetected
                THEN getFilteredPoseLandmarks(poseFilters, inp.world, currentTime)
                ELSE poseFilters
        posed == applyPose(currentVrm, leftArmActive, rightArmActive,
                           inp.v15, inp.v16, deltaTime)
        relaxed == resetPose(currentVrm, leftArmActive, rightArmActive,
                             deltaTime)
    IN  IF BODY_TRACKING_ENABLED
        THEN IF poseDetected
             THEN [left |-> posed.left, right |-> posed.right, bank |-> bank,
                   poseTracker |-> TRUE, poseDetected |-> TRUE,
                   gated |-> posed.gated,
                   c15 |-> posed.c15, c16 |-> posed.c16,
                   ev |-> faceEv \o handEv
                          \o <<Ev("detect", "pose"),
                               Ev("getFilteredPoseLandmarks", ""),
                               Ev("applyPose", "")>>
                          \o posed.ev]
             ELSE [left |-> relaxed.left, right |-> relaxed.right,
                   bank |-> bank,
                   poseTracker |-> poseLandmarker, poseDetected |-> FALSE,
                   gated |-> FALSE, c15 |-> 0, c16 |-> 0,
                   ev |-> faceEv \o handEv
                          \o If(poseLandmarker, <<Ev("detect", "pose")>>)
                          \o <<Ev("resetPose", "")>> \o relaxed.ev]
        ELSE [left |-> relaxed.left, right |-> relaxed.right, bank |-> bank,
              poseTracker |-> poseLandmarker, poseDetected |-> FALSE,
              gated |-> FALSE, c15 |-> 0, c16 |-> 0,
              ev |-> faceEv \o <<Ev("resetPose", "")>> \o relaxed.ev]

\* tracker results that the pass reads: a result of a tracker that is not
\* called, and fields the pass does not read, take one fixed value
Relevant(i, pass) ==
    /\ (~pass \/ mediapipe < 1) => (~i.blend /\ ~i.matrix)
    /\ (~pass \/ ~BODY_TRACKING_ENABLED \/ mediapipe < 3) => i.hand = "none"
    /\ (~pass \/ ~BODY_TRACKING_ENABLED \/ mediapipe < 2) => ~i.pose
    /\ (i.pose /\ ~currentVrm.loaded) => (i.v15 = 70 /\ i.v16 = Undefined)

\* one display-frame callback (lines 1982-2085), elapsed ticks after the
\* previous one; currentVrm.update and renderer.render belong to the
\* libraries and are not modelled
animate(elapsed, inp) ==
    /\ clock + elapsed <= MaxClock
    /\ LET currentTime == clock + elapsed
           deltaTime == currentTime - lastFrameTime
           pass == videoReady /\ sourceFrameChanged(videoTime, lastVideoTime)
       IN
       /\ Relevant(inp, pass)
       /\ \E res \in {retarget(inp, currentTime, deltaTime)} :
           /\ clock' = currentTime
           /\ lastFrameTime' = currentTime
           /\ lastVideoTime' = IF pass THEN videoTime ELSE lastVideoTime
           /\ leftArmActive' = IF pass THEN res.left ELSE leftArmActive
           /\ rightArmActive' = IF pass THEN res.right ELSE rightArmActive
           /\ poseFilters' = IF pass THEN res.bank ELSE poseFilters
           /\ quat' = IF pass THEN Written(quat, res.ev) ELSE quat
           /\ lastPassTime' = IF pass THEN currentTime ELSE lastPassTime
           /\ frame' = [action |-> "animate",
                        kind |-> IF pass THEN "pass" ELSE "skip",
                        deltaTime |-> deltaTime,
                        ready |-> videoReady,
                        videoTime |-> videoTime,
                        lastBefore |-> lastVideoTime,
                        enabled |-> BODY_TRACKING_ENABLED,
                        poseTracker |-> pass /\ res.poseTracker,
                        poseDetected |-> pass /\ res.poseDetected,
                        wasLeft |-> leftArmActive,
                        wasRight |-> rightArmActive,
                        gated |-> pass /\ res.gated,
                        c15 |-> IF pass THEN res.c15 ELSE 0,
                        c16 |-> IF pass THEN res.c16 ELSE 0,
                        trace |-> IF pass THEN res.ev ELSE <<>>]
    /\ UNCHANGED <<videoReady, videoTime, mediapipe, currentVrm,
                   BODY_TRACKING_ENABLED>>

Next ==
    \/ VideoStart /\ UNCHANGED <<fvars, gvars, hvars>>
    \/ VideoStop /\ UNCHANGED <<fvars, gvars, hvars>>
    \/ VideoFrame /\ UNCHANGED <<fvars, gvars, hvars>>
    \/ setupMediaPipe /\ UNCHANGED <<fvars, gvars, hvars>>
    \/ \E rig \in Rigs : loadAvatar(rig) /\ UNCHANGED <<fvars, gvars, hvars>>
    \/ toggleBody /\ UNCHANGED <<fvars, gvars, hvars>>
    \/ \E elapsed \in ElapsedVals, inp \in Inputs :
          animate(elapsed, inp) /\ UNCHANGED <<fvars, gvars, hvars>>

\* ------------------------------------------------------------------------
\* One filter instance under arbitrary calls
\* ------------------------------------------------------------------------
XVals == {R(-1), R(0), R(2)}
DxVals == {R(-1), R(0), R(1)}
TVals == {R(n) : n \in 0..MaxT}

\* constructor arguments: the defaults (line 17), the pose bank (line 98),
\* and two instances without speed adaptation
FilterParams ==
    { <<R(1), <<7, 1000>>, R(1)>>,
      <<<<3, 2>>, <<1, 100>>, R(1)>>,
      <<R(1), R(0), R(1)>>,
      <<<<1, 2>>, R(0), R(1)>> }

\* nth: filter() calls since construction or the last reset (2: two or more)
\* afterReset: reset() has been called on the instance
NoCall == [op |-> "none", x |-> NULL, t |-> NULL, divisor |-> NULL,
           pre |-> NULL, nth |-> 0, afterReset |-> FALSE]

FilterIdle == flt = OneEuroFilter(R(1), R(0), R(1)) /\ out = NULL /\ call = NoCall

GateIdle == gate = [active |-> FALSE, inputs |-> <<>>, states |-> <<>>]

\* no recording was started (lines 133-134, 1468-1470, 142)
NoStop == [handler |-> 0, loop |-> 0, canvas |-> 0, audioContext |-> 0,
           chunks |-> {}]

MediaIdle ==
    /\ rec = [mediaRecorder |-> 0, state |-> "none", started |-> 0,
              compositeCanvas |-> 0, compositeAnimationId |-> 0,
              loops |-> {}, audioContext |-> 0, recordedChunks |-> {},
              queue |-> <<>>, onstop |-> NoStop]
    /\ mic = [isMicEnabled |-> FALSE, micStream |-> FALSE,
              micAnalyser |-> FALSE, isMicToggling |-> FALSE,
              toggle |-> "idle", micTrack |-> FALSE,
              meterAudioContext |-> "none",
              isCaptionsEnabled |-> FALSE, isCaptionsStarting |-> FALSE,
              speechRecognition |-> "none",
              screenStream |-> FALSE, tabTrack |-> FALSE,
              tabAnalyser |-> FALSE, tabMeter |-> "idle",
              meterAnimationId |-> 0, frames |-> 0, last |-> "none"]

SolverIdle ==
    /\ ik = [called |-> FALSE]
    /\ finger = [called |-> FALSE]
    /\ point = [called |-> FALSE]
    /\ f3 = [called |-> FALSE, flt |-> OneEuroFilter3D(<<3, 2>>, <<1, 100>>)]
    /\ arms = [called |-> FALSE, leftArmActive |-> FALSE,
              rightArmActive |-> FALSE]
    /\ MediaIdle

Init == PageInit /\ FilterIdle /\ GateIdle /\ SolverIdle

Spec == Init /\ [][Next]_vars

\* ------------------------------------------------------------------------
\* The first retargeting pass on every rig
\* ------------------------------------------------------------------------
\* the set-up of the page in any order, with a rig that has any subset of
\* the joints, up to the first retargeting pass or a call of the solver
Unsettled == lastPassTime = -1 /\ frame.kind # "ik"

\* solveTwoBoneIK(upperBone, lowerBone, ...) on the joints of one arm,
\* present or not
solveArm(upper, lower) ==
    /\ currentVrm.loaded
    /\ \E ev \in {solveTwoBoneIK(currentVrm, upper, lower, 1)} :
          /\ quat' = Written(quat, ev)
          /\ frame' = [Did("solveTwoBoneIK") EXCEPT
                          !.kind = "ik", !.deltaTime = 1,
                          !.trace = <<[Ev("solveTwoBoneIK", upper)
                                          EXCEPT !.target = lower]>> \o ev]
    /\ UNCHANGED <<clock, lastFrameTime, lastVideoTime, videoReady, videoTime,
                   mediapipe, currentVrm, BODY_TRACKING_ENABLED,
                   leftArmActive, rightArmActive, poseFilters, lastPassTime>>

PassNext ==
    /\ Unsettled
    /\ \/ VideoStart /\ UNCHANGED <<fvars, gvars, hvars>>
       \/ setupMediaPipe /\ UNCHANGED <<fvars, gvars, hvars>>
       \/ \E rig \in SUBSET Bones :
             loadAvatar(rig) /\ UNCHANGED <<fvars, gvars, hvars>>
       \/ toggleBody /\ UNCHANGED <<fvars, gvars, hvars>>
       \/ \E inp \in Inputs :
             /\ videoReady
             /\ animate(1, inp)
             /\ UNCHANGED <<fvars, gvars, hvars>>
       \/ \E arm \in {<<"rightUpperArm", "rightLowerArm">>,
                      <<"leftUpperArm", "leftLowerArm">>} :
             solveArm(arm[1], arm[2]) /\ UNCHANGED <<fvars, gvars, hvars>>

PassSpec == Init /\ [][PassNext]_vars

\* A fresh instance, or an instance in the middle of its life: any memory
\* (xPrev, dxPrev, tPrev) is the result of some earlier first call and
\* update, so the harness may start from it.
FilterInit ==
    /\ \E p \in FilterParams :
         \/ /\ flt = OneEuroFilter(p[1], p[2], p[3])
            /\ call = NoCall
         \/ /\ \E x \in XVals, dx \in DxVals, t \in {R(0), R(1)} :
                 flt = [OneEuroFilter(p[1], p[2], p[3])
                           EXCEPT !.xPrev = x, !.dxPrev = dx, !.tPrev = t]
            /\ call = [NoCall EXCEPT !.nth = 2]
    /\ out = NULL

Fits(f) == Den(f.xPrev) <= MaxDen /\ Den(f.dxPrev) <= MaxDen

FilterCall(x, t) ==
    /\ (flt.tPrev # NULL /\ RLt(flt.tPrev, t)) => Fits(flt)
    /\ LET r == filter(flt, x, t) IN
         /\ flt' = r.state
         /\ out' = r.ret
         /\ call' = [op |-> "filter", x |-> x, t |-> t,
                     divisor |-> r.divisor, pre |-> flt,
                     nth |-> IF call.nth = 0 THEN 1 ELSE 2,
                     afterReset |-> call.afterReset]

FilterReset ==
    /\ flt' = reset(flt)
    /\ out' = out
    /\ call' = [op |-> "reset", x |-> NULL, t |-> NULL, divisor |-> NULL,
                pre |-> flt, nth |-> 0, afterReset |-> TRUE]

FilterNext ==
    \/ \E x \in XVals, t \in TVals :
          FilterCall(x, t) /\ UNCHANGED <<gvars, ovars, hvars>>
    \/ FilterReset /\ UNCHANGED <<gvars, ovars, hvars>>

FilterSpecInit == FilterInit /\ GateIdle /\ PageInit /\ SolverIdle

FilterSpec == FilterSpecInit /\ [][FilterNext]_vars

\* ------------------------------------------------------------------------
\* One limb's gate under arbitrary confidences
\* ------------------------------------------------------------------------
VisVals == {30, 45, 50, 65, 70, Undefined}

\* let leftArmActive = false (line 157)
GateInit ==
    /\ gate = [active |-> FALSE, inputs |-> <<>>, states |-> <<>>]
    /\ FilterIdle
    /\ PageInit
    /\ SolverIdle

GateUpdate(visibility) ==
    /\ Len(gate.inputs) < MaxGateSeq
    /\ LET c == wristVis(visibility)
           a == HysteresisGate(gate.active, c)
       IN  gate' = [active |-> a,
                    inputs |-> Append(gate.inputs, c),
                    states |-> Append(gate.states, a)]

GateNext == \E v \in VisVals : GateUpdate(v) /\ UNCHANGED <<fvars, ovars, hvars>>

GateSpec == GateInit /\ [][GateNext]_vars

\* ------------------------------------------------------------------------
\* One call of the IK solver on arbitrary arguments
\* ------------------------------------------------------------------------
\* bone lengths in metres: two ordinary arms, and bones of one millimetre
\* and of half a millimetre
BoneLengths == {<<<<3, 10>>, <<3, 10>>>>, <<<<3, 10>>, <<1, 5>>>>,
                <<<<1, 1000>>, <<1, 1000>>>>, <<<<1, 2000>>, <<1, 2000>>>>}

\* targets in tenths of a metre: none, bent at 90 degrees, at full reach,
\* at the folded distance, along up, nearly along up, backward, out of reach
TargetDirs == {Zero3, <<3, 3, 0>>, <<6, 0, 0>>, <<3, 4, 0>>, <<1, 0, 0>>,
               <<0, 2, 0>>, <<1, 101, 0>>, <<0, 0, -4>>, <<9, 0, 0>>,
               <<0, -3, 1>>}

\* poles: colinear with the target (parallel, anti-parallel, zero), nearly
\* colinear with the x axis, or in general position
PoleDirs(t) == {t, negate(t), Zero3, <<3, 0, 0>>, <<100, 1, 0>>,
                <<0, 1, 0>>, <<0, 1, 2>>}

\* seconds between two display callbacks
DeltaTimes == {R(0), <<2, 125>>, <<33, 1000>>, <<1, 10>>, R(1)}

Tenth == <<1, 10>>

IKInit == SolverIdle /\ PageInit /\ FilterIdle /\ GateIdle

IKSolve(upperBone, lowerBone, len, t, p, boneAxis, deltaTime) ==
    LET targetPos == V3(t, Tenth)
        polePos == V3(p, Tenth)
        r == twoBoneIK(upperBone, lowerBone, len[1], len[2], targetPos,
                       polePos, boneAxis, deltaTime)
    IN  ik' = [called |-> TRUE, upperBefore |-> upperBone,
               lowerBefore |-> lowerBone, a |-> len[1], b |-> len[2],
               targetPos |-> targetPos, polePos |-> polePos,
               boneAxis |-> boneAxis, deltaTime |-> deltaTime,
               upperBone |-> r.upperBone, lowerBone |-> r.lowerBone,
               log |-> r.log]

IKNext ==
    \E joints \in {<<Identity, Identity>>, <<Absent, Identity>>,
                   <<Identity, Absent>>},
       len \in BoneLengths, t \in TargetDirs,
       boneAxis \in {<<-1, 0, 0>>, <<1, 0, 0>>}, deltaTime \in DeltaTimes :
       \E p \in PoleDirs(t) :
          /\ ~ik.called
          /\ IKSolve(joints[1], joints[2], len, t, p, boneAxis, deltaTime)
          /\ UNCHANGED <<fvars, gvars, ovars, finger, point, nvars>>

IKSpec == IKInit /\ [][IKNext]_vars

\* ------------------------------------------------------------------------
\* One finger of applyFingers on arbitrary joints
\* ------------------------------------------------------------------------
FingerNames == {"Thumb", "Index", "Middle", "Ring", "Little"}

\* joints (mcp, pip, dip, tip) at rational distances: straight, straight
\* with unequal segments, folded to 0.4 of the arc, folded back onto the
\* knuckle, bent, half folded, out of order on a line, all in one point
JointShapes ==
    { <<<<0, 0, 0>>, <<1, 0, 0>>, <<2, 0, 0>>, <<3, 0, 0>>>>,
      <<<<0, 0, 0>>, <<3, 4, 0>>, <<6, 8, 0>>, <<12, 16, 0>>>>,
      <<<<0, 0, 0>>, <<0, 3, 0>>, <<4, 3, 0>>, <<4, 0, 0>>>>,
      <<<<0, 0, 0>>, <<1, 0, 0>>, <<0, 0, 0>>, <<0, 0, 0>>>>,
      <<<<0, 0, 0>>, <<3, 0, 0>>, <<3, 0, 0>>, <<3, 4, 0>>>>,
      <<<<0, 0, 0>>, <<2, 0, 0>>, <<3, 0, 0>>, <<2, 0, 0>>>>,
      <<<<0, 0, 0>>, <<2, 0, 0>>, <<1, 0, 0>>, <<3, 0, 0>>>>,
      <<<<0, 0, 0>>, <<0, 0, 0>>, <<0, 0, 0>>, <<0, 0, 0>>>> }

\* the same shape elsewhere in the image and along another axis
Moved(shape, offset, turn) ==
    [i \in 1..4 |->
        LET q == shape[i]
            r == IF turn THEN <<q[3], q[1], q[2]>> ELSE q
        IN  <<r[1] + offset, r[2] + offset, r[3] - offset>>]

FingerInit == SolverIdle /\ PageInit /\ FilterIdle /\ GateIdle

FingerApply(prefix, fingerName, joints, present) ==
    LET factor == getLerpFactor(<<2, 125>>, 15)
        r == applyFinger(prefix, fingerName, joints, factor, present)
    IN  finger' = [called |-> TRUE, prefix |-> prefix,
                   fingerName |-> fingerName, joints |-> joints,
                   present |-> present, totalLength |-> r.totalLength,
                   straightDist |-> r.straightDist, raw |-> r.raw,
                   curl |-> r.curl, writes |-> r.writes]

FingerNext ==
    \E prefix \in {"left", "right"}, fingerName \in FingerNames,
       shape \in JointShapes, offset \in {0, 5}, turn \in BOOLEAN,
       present \in SUBSET {"Proximal", "Intermediate", "Distal"} :
          /\ ~finger.called
          /\ FingerApply(prefix, fingerName, Moved(shape, offset, turn), present)
          /\ UNCHANGED <<fvars, gvars, ovars, ik, point, nvars>>

FingerSpec == FingerInit /\ [][FingerNext]_vars

\* ------------------------------------------------------------------------
\* mpToVRM on arbitrary points
\* ------------------------------------------------------------------------
Coords == {R(0), <<1, 2>>, <<-1, 4>>, <<-3, 2>>}

MapInit == SolverIdle /\ PageInit /\ FilterIdle /\ GateIdle

\* pos = mpToVRM(l, ...args), then mpToVRM(pos, ...args)
MapPoint(landmark, args) ==
    LET first == mpToVRM(landmark, args)
        second == mpToVRM(first.ret, args)
    IN  point' = [called |-> TRUE, landmark |-> landmark, args |-> args,
                  ret |-> first.ret, landmarkAfter |-> first.landmark,
                  again |-> second.ret]

MapNext ==
    \E x \in Coords, y \in Coords, z \in Coords,
       args \in {<<>>, <<TRUE>>, <<FALSE>>} :
          /\ ~point.called
          /\ MapPoint([x |-> x, y |-> y, z |-> z], args)
          /\ UNCHANGED <<fvars, gvars, ovars, ik, finger, nvars>>

MapSpec == MapInit /\ [][MapNext]_vars

\* ------------------------------------------------------------------------
\* One OneEuroFilter3D instance of the pose bank under arbitrary calls
\* ------------------------------------------------------------------------
Points3D ==
    { [x |-> p[1], y |-> p[2], z |-> p[3], visibility |-> v] :
        p \in {<<R(0), R(2), R(-1)>>, <<R(2), R(-1), R(0)>>,
               <<R(-1), R(0), R(2)>>, <<R(0), R(0), R(0)>>},
        v \in {Undefined, 50} }

Filter3DInit == SolverIdle /\ PageInit /\ FilterIdle /\ GateIdle

Filter3DCall(p, t) ==
    /\ (f3.flt.xFilter.tPrev # NULL /\ RLt(f3.flt.xFilter.tPrev, t))
          => (Fits(f3.flt.xFilter) /\ Fits(f3.flt.yFilter)
              /\ Fits(f3.flt.zFilter))
    /\ LET r == filter3D(f3.flt, p, t) IN
         f3' = [called |-> TRUE, flt |-> r.state, pre |-> f3.flt,
                point |-> p, t |-> t, ret |-> r.ret]

Filter3DNext ==
    \E p \in Points3D, t \in TVals :
        Filter3DCall(p, t)
        /\ UNCHANGED <<fvars, gvars, ovars, ik, finger, point, arms, mvars>>

Filter3DSpec == Filter3DInit /\ [][Filter3DNext]_vars

\* ------------------------------------------------------------------------
\* The arms of applyPose under arbitrary landmarks
\* ------------------------------------------------------------------------
\* rigs with the rest offsets of the lower arms and hands, in metres
ArmRigs ==
    { [loaded |-> TRUE, bones |-> b,
       position |-> [j \in b |-> IF j \in {"rightHand", "leftHand"}
                                 THEN <<1, 4>> ELSE <<3, 10>>]] :
        b \in {Bones, Bones \ {"rightHand", "neck"}} }

Landmark(p, v) == [x |-> R(p[1]), y |-> R(p[2]), z |-> R(p[3]), visibility |-> v]

\* what the tracker reports of one side: shoulder, elbow, wrist and the
\* visibility of the wrist; bent, bent and unsure, in the dead zone, elbow
\* on the wrist, all three on one point without a visibility
SideViews ==
    {<<Zero3, <<3, 0, 0>>, <<3, 4, 0>>, 70>>,
     <<Zero3, <<3, 0, 0>>, <<3, 4, 0>>, 30>>,
     <<<<3, 0, 0>>, <<3, 4, 0>>, Zero3, 50>>,
     <<Zero3, <<3, 0, 0>>, <<3, 0, 0>>, 70>>,
     <<Zero3, Zero3, Zero3, Undefined>>}

\* the landmarks 11..16 of one result; own is the user's left side
Landmarks(own, other) ==
    [i \in 11..16 |->
        CASE i = 11 -> Landmark(own[1], 90)
          [] i = 13 -> Landmark(own[2], 90)
          [] i = 15 -> Landmark(own[3], own[4])
          [] i = 12 -> Landmark(other[1], 90)
          [] i = 14 -> Landmark(other[2], 90)
          [] i = 16 -> Landmark(other[3], other[4])]

\* world landmarks of the same result: another frame of reference
World(landmarks) ==
    [i \in DOMAIN landmarks |->
        [x |-> landmarks[i].z, y |-> landmarks[i].x, z |-> landmarks[i].y,
         visibility |-> landmarks[i].visibility]]

ArmInit == SolverIdle /\ PageInit /\ FilterIdle /\ GateIdle

\* the writes of applyFingers for one finger, as entries of the log
fingerWrites(prefix, deltaTime) ==
    LET factor == getLerpFactor(deltaTime, 15)
        w == applyFinger(prefix, "Index",
                         <<Zero3, <<3, 0, 0>>, <<3, 4, 0>>, <<0, 4, 0>>>>,
                         factor, {"Proximal", "Intermediate", "Distal"}).writes
        name(bone) == CASE bone[3] = "Proximal" -> "IndexProximal"
                        [] bone[3] = "Intermediate" -> "IndexIntermediate"
                        [] bone[3] = "Distal" -> "IndexDistal"
    IN  [i \in DOMAIN w |-> Slerp(name(w[i].bone), "curl", factor, 10)]

\* the rest offsets of the joints after the writes of a log: only a write
\* to bone.position changes one
RECURSIVE Rest(_, _)
Rest(vrm, events) ==
    IF events = <<>> THEN vrm
    ELSE LET e == Head(events) IN
         Rest(IF e.op = "position" /\ e.arg \in DOMAIN vrm.position
              THEN [vrm EXCEPT !.position[e.arg] = R(0)] ELSE vrm,
              Tail(events))

\* one pass with face, hand and pose detected: applyHeadRotation,
\* applyHands with applyFingers, applyPose
ArmPass(vrm, landmarks, worldLandmarks) ==
    LET r == poseArms(vrm, arms.leftArmActive, arms.rightArmActive,
                      landmarks, worldLandmarks)
        ev == applyHeadRotation(vrm, 1)
              \o applyHands(vrm, "Right", 1) \o fingerWrites("right", 1)
              \o applyPose(vrm, arms.leftArmActive, arms.rightArmActive,
                           landmarks[15].visibility,
                           landmarks[16].visibility, 1).ev
    IN
    arms' = [called |-> TRUE, leftArmActive |-> r.leftArmActive,
            rightArmActive |-> r.rightArmActive,
            vrm |-> Rest(vrm, ev), wasLeft |-> arms.leftArmActive,
            wasRight |-> arms.rightArmActive, landmarks |-> landmarks,
            worldLandmarks |-> worldLandmarks,
            rightArm |-> r.rightArm, leftArm |-> r.leftArm,
            kind |-> "applyPose", ev |-> ev]

\* one pass without a pose: resetPose
ArmReset ==
    /\ arms.called
    /\ LET r == resetPose(arms.vrm, arms.leftArmActive, arms.rightArmActive,
                          1) IN
       arms' = [arms EXCEPT !.leftArmActive = r.left,
                            !.rightArmActive = r.right,
                            !.wasLeft = arms.leftArmActive,
                            !.wasRight = arms.rightArmActive,
                            !.vrm = Rest(arms.vrm, r.ev),
                            !.rightArm = [branch |-> "relax"],
                            !.leftArm = [branch |-> "relax"],
                            !.kind = "resetPose", !.ev = r.ev]

ArmNext ==
    \/ \E vrm \in IF arms.called THEN {arms.vrm} ELSE ArmRigs,
          own \in SideViews, other \in SideViews, hasWorld \in BOOLEAN :
           LET landmarks == Landmarks(own, other) IN
           /\ ArmPass(vrm, landmarks,
                      IF hasWorld THEN World(landmarks) ELSE NULL)
           /\ UNCHANGED <<fvars, gvars, ovars, ik, finger, point, f3, mvars>>
    \/ ArmReset /\ UNCHANGED <<fvars, gvars, ovars, ik, finger, point, f3, mvars>>

ArmSpec == ArmInit /\ [][ArmNext]_vars

\* ------------------------------------------------------------------------
\* Recording (src/main.js 1472-1756)
\* ------------------------------------------------------------------------
\* Recordings are numbered 1, 2, ...; 0 stands for null.  A canvas, a frame
\* loop, an AudioContext and a chunk carry the number of the recording that
\* created them.  queue holds the events of stopped recorders that were
\* not delivered yet, in order.
MaxRecordings == 3

\* startRecording() (lines 1472-1686)
startRecording ==
    /\ rec.started < MaxRecordings
    /\ LET n == rec.started + 1 IN
       rec' = [rec EXCEPT !.started = n,
                          !.recordedChunks = {},
                          !.compositeCanvas = n,
                          !.loops = @ \cup {n},
                          !.compositeAnimationId = n,
                          !.audioContext = n,
                          !.mediaRecorder = n,
                          !.state = "recording"]

\* stopRecording() (lines 1688-1704): requestData() and stop() queue a
\* dataavailable and a stop event and make the recorder inactive at once
stopRecording ==
    IF rec.mediaRecorder # 0 /\ rec.state = "recording"
    THEN rec' = [rec EXCEPT !.state = "inactive",
                            !.queue = @ \o <<<<"dataavailable", rec.mediaRecorder>>,
                                             <<"stop", rec.mediaRecorder>>>>]
    ELSE UNCHANGED rec

\* toggleRecording() (lines 1750-1756)
toggleRecording ==
    IF rec.mediaRecorder # 0 /\ rec.state = "recording"
    THEN stopRecording
    ELSE startRecording

\* mediaRecorder.ondataavailable of the running recorder (timeslice) or of
\* a stopped one (lines 1636-1640)
ondataavailable ==
    \/ /\ rec.state = "recording"
       /\ rec' = [rec EXCEPT !.recordedChunks = @ \cup {rec.mediaRecorder}]
    \/ /\ rec.queue # <<>>
       /\ Head(rec.queue)[1] = "dataavailable"
       /\ rec' = [rec EXCEPT !.recordedChunks = @ \cup {Head(rec.queue)[2]},
                             !.queue = Tail(@)]

\* mediaRecorder.onstop of a stopped recorder (lines 1650-1673), with
\* downloadRecording() (1706-1723)
onstop ==
    /\ rec.queue # <<>>
    /\ Head(rec.queue)[1] = "stop"
    /\ rec' = [rec EXCEPT
                 !.queue = Tail(@),
                 !.loops = @ \ {rec.compositeAnimationId},
                 !.compositeAnimationId = 0,
                 !.compositeCanvas = 0,
                 !.audioContext = 0,
                 !.recordedChunks = {},
                 !.onstop = [handler |-> Head(rec.queue)[2],
                             loop |-> rec.compositeAnimationId,
                             canvas |-> rec.compositeCanvas,
                             audioContext |-> rec.audioContext,
                             chunks |-> rec.recordedChunks]]

\* compositeFrame() of the loop n (lines 1489-1576): draws on the global
\* canvas and requests the next frame; with the canvas gone, the drawing
\* throws and the loop ends
compositeFrame(n) ==
    /\ n \in rec.loops
    /\ IF rec.compositeCanvas = 0
       THEN rec' = [rec EXCEPT !.loops = @ \ {n}]
       ELSE rec' = [rec EXCEPT !.compositeAnimationId = n]

RecInit == SolverIdle /\ PageInit /\ FilterIdle /\ GateIdle

RecNext ==
    /\ \/ toggleRecording
       \/ stopRecording
       \/ ondataavailable
       \/ onstop
       \/ \E n \in 1..MaxRecordings : compositeFrame(n)
    /\ UNCHANGED <<fvars, gvars, ovars, ik, finger, point, f3, arms, mic>>

RecSpec == RecInit /\ [][RecNext]_vars

\* ------------------------------------------------------------------------
\* Microphone, captions, audio meters, screen capture
\* (src/main.js 375-530, 996-1191, 1336-1465)
\* ------------------------------------------------------------------------
\* The state between two handlers.  micStream, micAnalyser, tabAnalyser and
\* screenStream are TRUE when the global is non-null; micTrack and tabTrack
\* when the audio track is live; meterAnimationId is 0 for null.  toggle is
\* where toggleMicrophone is suspended: "getUserMedia" (line 1041) or
\* "resume" (the await of line 1103 inside the await of line 1076); tabMeter
\* likewise for setupTabAudioMeter (line 1128).  speechRecognition is
\* "none" before initSpeechRecognition, then "idle", "running", or "ending"
\* when its end event is on its way.

\* stopMeterAnimation() (lines 1157-1162)
stopMeterAnimation(m) ==
    IF m.meterAnimationId # 0 THEN [m EXCEPT !.meterAnimationId = 0] ELSE m

\* updateAudioMeters() (lines 1164-1191)
updateAudioMeters(m) ==
    IF ~m.micAnalyser /\ ~m.tabAnalyser THEN stopMeterAnimation(m) ELSE m

\* updateMeters() (lines 1150-1153): updateAudioMeters(), then the next
\* frame is requested
updateMeters(m) == [updateAudioMeters(m) EXCEPT !.meterAnimationId = 1]

\* startMeterAnimation() (lines 1147-1155)
startMeterAnimation(m) ==
    IF m.meterAnimationId # 0 THEN m ELSE updateMeters(m)

\* stopCaptions() (lines 497-522)
stopCaptions(m) ==
    [m EXCEPT !.speechRecognition = IF @ = "running" THEN "ending" ELSE @,
              !.isCaptionsEnabled = FALSE]

\* startCaptions() (lines 460-495); speechRecognition.start() throws while
\* a session is running or ending
startCaptions_noMicCheck(m) ==
    IF m.isCaptionsEnabled \/ m.isCaptionsStarting THEN m
    ELSE LET r == IF m.speechRecognition = "none"
                  THEN [m EXCEPT !.speechRecognition = "idle"] ELSE m
         IN  IF r.speechRecognition = "idle"
             THEN [r EXCEPT !.speechRecognition = "running",
                            !.isCaptionsEnabled = TRUE]
             ELSE r

startCaptions(m) ==
    IF m.isCaptionsEnabled \/ m.isCaptionsStarting THEN m
    ELSE IF ~m.isMicEnabled THEN m
    ELSE LET r == IF m.speechRecognition = "none"
                  THEN [m EXCEPT !.speechRecognition = "idle"] ELSE m
         IN  IF r.speechRecognition = "idle"
             THEN [r EXCEPT !.speechRecognition = "running",
                            !.isCaptionsEnabled = TRUE]
             ELSE r

\* toggleCaptions() (lines 524-530)
toggleCaptions(m) ==
    IF m.isCaptionsEnabled THEN stopCaptions(m) ELSE startCaptions(m)

\* speechRecognition.onend (lines 438-455), the session having ended
onend(m) ==
    LET e == [m EXCEPT !.speechRecognition = "idle"] IN
    IF e.isCaptionsEnabled /\ e.isMicEnabled /\ ~e.isCaptionsStarting
    THEN [e EXCEPT !.speechRecognition = "running"]
    ELSE IF e.isCaptionsEnabled /\ ~e.isMicEnabled
    THEN [e EXCEPT !.isCaptionsEnabled = FALSE]
    ELSE e

\* setupMicMeter() from line 1106 on, and the rest of toggleMicrophone:
\* createMediaStreamSource(null) throws into the catch of line 1078
setupMicMeter(m) ==
    LET a == [m EXCEPT !.micAnalyser = TRUE, !.toggle = "idle",
                       !.isMicToggling = FALSE]
    IN  IF ~m.micStream THEN a ELSE startMeterAnimation(a)

\* track.onended of the microphone track (lines 1044-1063)
micTrackEnded(m) ==
    LET e == [m EXCEPT !.micTrack = FALSE] IN
    IF e.isMicEnabled
    THEN LET off == [e EXCEPT !.isMicEnabled = FALSE, !.micStream = FALSE,
                              !.micAnalyser = FALSE]
         IN  updateAudioMeters(IF off.isCaptionsEnabled
                               THEN stopCaptions(off) ELSE off)
    ELSE e

\* toggleMicrophone() up to its first await or its end (lines 999-1041)
toggleMicrophone(m) ==
    IF m.isMicToggling THEN m
    ELSE IF m.isMicEnabled
    THEN LET c == IF m.isCaptionsEnabled THEN stopCaptions(m) ELSE m
             off == [c EXCEPT !.micTrack = IF c.micStream THEN FALSE ELSE @,
                              !.micStream = FALSE,
                              !.isMicEnabled = FALSE,
                              !.micAnalyser = FALSE]
         IN  updateAudioMeters(off)
    ELSE [m EXCEPT !.isMicToggling = TRUE, !.toggle = "getUserMedia"]

\* getUserMedia resolved: lines 1041-1076 and setupMicMeter() up to its
\* await (lines 1094-1104); state is the state of a newly made AudioContext
getUserMediaResolved(m, state) ==
    LET on == [m EXCEPT !.micStream = TRUE, !.micTrack = TRUE,
                        !.isMicEnabled = TRUE,
                        !.meterAudioContext = IF @ = "none" THEN state ELSE @]
    IN  IF on.meterAudioContext = "suspended"
        THEN [on EXCEPT !.toggle = "resume"]
        ELSE setupMicMeter(on)

\* getUserMedia rejected: lines 1078-1087 and the finally of line 1089
getUserMediaRejected(m) ==
    [m EXCEPT !.toggle = "idle", !.isMicToggling = FALSE]

\* setupTabAudioMeter() from line 1131 on: screenStream.getAudioTracks()
\* throws when the capture was stopped meanwhile
setupTabAudioMeter(m) ==
    LET a == [m EXCEPT !.tabAnalyser = TRUE, !.tabMeter = "idle"] IN
    IF ~m.screenStream THEN a ELSE startMeterAnimation(a)

\* startScreenCapture() after getDisplayMedia resolved (lines 1339-1393)
startScreenCapture(m, hasTabAudio, state) ==
    LET s == [m EXCEPT !.screenStream = TRUE, !.tabTrack = hasTabAudio] IN
    IF ~hasTabAudio THEN s
    ELSE LET c == [s EXCEPT !.meterAudioContext =
                                IF @ = "none" THEN state ELSE @]
         IN  IF c.meterAudioContext = "suspended"
             THEN [c EXCEPT !.tabMeter = "resume"]
             ELSE setupTabAudioMeter(c)

\* track.onended of the tab audio track (lines 1365-1375)
tabTrackEnded(m) == [m EXCEPT !.tabTrack = FALSE, !.tabAnalyser = FALSE]

\* stopScreenCapture() (lines 1408-1465), the recording apart
stopScreenCapture(m) ==
    [m EXCEPT !.screenStream = FALSE, !.tabTrack = FALSE,
              !.tabAnalyser = FALSE]

\* what the page and its surroundings may do next
Did2(m, what) == mic' = [m EXCEPT !.last = what]

MicClick == Did2(toggleMicrophone(mic), "toggleMicrophone")

MicGranted ==
    /\ mic.toggle = "getUserMedia"
    /\ \E state \in {"running", "suspended"} :
          Did2(getUserMediaResolved(mic, state), "getUserMedia")

MicDenied ==
    /\ mic.toggle = "getUserMedia"
    /\ Did2(getUserMediaRejected(mic), "rejected")

MicResumed ==
    /\ mic.toggle = "resume"
    /\ Did2(setupMicMeter([mic EXCEPT !.meterAudioContext = "running"]),
            "setupMicMeter")

MicEnded ==
    /\ mic.micTrack
    /\ Did2(micTrackEnded(mic), "track.onended")

CaptionsClick == Did2(toggleCaptions(mic), "toggleCaptions")

\* toggleDialogue and setDialogueInputMode (lines 590-603, 690-696) and the
\* 'not-allowed' error (line 420)
CaptionsStart == Did2(startCaptions(mic), "startCaptions")
CaptionsStop == Did2(stopCaptions(mic), "stopCaptions")

\* the recognition session ends by itself
SessionEnds ==
    /\ mic.speechRecognition = "running"
    /\ Did2([mic EXCEPT !.speechRecognition = "ending"], "end")

SessionEnded ==
    /\ mic.speechRecognition = "ending"
    /\ Did2(onend(mic), "onend")

ScreenStart ==
    /\ ~mic.screenStream
    /\ \E hasTabAudio \in BOOLEAN, state \in {"running", "suspended"} :
          Did2(startScreenCapture(mic, hasTabAudio, state),
               "startScreenCapture")

TabResumed ==
    /\ mic.tabMeter = "resume"
    /\ Did2(setupTabAudioMeter([mic EXCEPT !.meterAudioContext = "running"]),
            "setupTabAudioMeter")

TabEnded ==
    /\ mic.tabTrack
    /\ Did2(tabTrackEnded(mic), "tab.onended")

ScreenStop ==
    /\ mic.screenStream
    /\ Did2(stopScreenCapture(mic), "stopScreenCapture")

\* the browser suspends the meters' AudioContext (tab hidden), and
\* visibilitychange resumes it (lines 902-912)
ContextSuspended ==
    /\ mic.meterAudioContext = "running"
    /\ Did2([mic EXCEPT !.meterAudioContext = "suspended"], "suspended")

visibilitychange ==
    /\ mic.meterAudioContext = "suspended"
    /\ mic.toggle # "resume" /\ mic.tabMeter # "resume"
    /\ Did2([mic EXCEPT !.meterAudioContext = "running"], "visibilitychange")

\* the animation frame the meter loop requested; frames is the parity of
\* the number of frames delivered
MeterFrame ==
    /\ mic.meterAnimationId # 0
    /\ Did2([updateMeters(mic) EXCEPT !.frames = 1 - @], "updateMeters")

MicInit == SolverIdle /\ PageInit /\ FilterIdle /\ GateIdle

MicNext ==
    /\ \/ MicClick \/ MicGranted \/ MicDenied \/ MicResumed \/ MicEnded
       \/ CaptionsClick \/ CaptionsStart \/ CaptionsStop
       \/ SessionEnds \/ SessionEnded
       \/ ScreenStart \/ TabResumed \/ TabEnded \/ ScreenStop
       \/ ContextSuspended \/ visibilitychange
       \/ MeterFrame
    /\ UNCHANGED <<fvars, gvars, ovars, ik, finger, point, f3, arms, rec>>

MicSpec == MicInit /\ [][MicNext]_vars

\* the browser keeps delivering the animation frames that were requested,
\* settles the promises that are awaited and delivers the end event of a
\* recognition session
MeterSpec ==
    /\ MicInit /\ [][MicNext]_vars
    /\ WF_mic(MeterFrame)
    /\ WF_mic(MicGranted \/ MicDenied)
    /\ WF_mic(MicResumed) /\ WF_mic(TabResumed)
    /\ WF_mic(SessionEnded)

\* ========================================================================
\* Properties
\* ========================================================================

\* C1 (GateSpec): a limb starts Inactive; a gate update with confidence c
\* turns an Inactive limb Active iff c > 0.65, an Active limb Inactive iff
\* c < 0.45 and otherwise holds the state; [0.7, 0.5, 0.3, 0.7] yields
\* [Active, Active, Inactive, Active]; inputs within [0.45, 0.65] cause no
\* transition.
C1_GateTransitionFunction ==
    LET n == Len(gate.inputs)
        before(i) == IF i = 1 THEN FALSE ELSE gate.states[i - 1]
    IN  /\ Len(gate.states) = n
        /\ gate.active = (IF n = 0 THEN FALSE ELSE gate.states[n])
        /\ \A i \in 1..n :
             /\ (~before(i) /\ gate.inputs[i] > 65) => gate.states[i]
             /\ (~before(i) /\ gate.inputs[i] <= 65) => ~gate.states[i]
             /\ (before(i) /\ gate.inputs[i] < 45) => ~gate.states[i]
             /\ (before(i) /\ gate.inputs[i] >= 45) => gate.states[i]
        /\ gate.inputs = <<70, 50, 30, 70>>
             => gate.states = <<TRUE, TRUE, FALSE, TRUE>>
        /\ (\A i \in 1..n : gate.inputs[i] >= 45 /\ gate.inputs[i] <= 65)
             => \A i \in 1..n : ~gate.states[i]

C1_Witness ==
    /\ gate.inputs = <<70, 50, 30, 70>>
    /\ gate.states = <<TRUE, TRUE, FALSE, TRUE>>

\* C2 as stated (Spec): a limb's activation changes only in a gate update,
\* Active->Inactive only with confidence < 0.45 and Inactive->Active only
\* with confidence > 0.65.
C2_OnlyGateChangesActivation ==
    [][ /\ (leftArmActive /\ ~leftArmActive')
            => (frame'.gated /\ frame'.c15 < 45)
        /\ (~leftArmActive /\ leftArmActive')
            => (frame'.gated /\ frame'.c15 > 65)
        /\ (rightArmActive /\ ~rightArmActive')
            => (frame'.gated /\ frame'.c16 < 45)
        /\ (~rightArmActive /\ rightArmActive')
            => (frame'.gated /\ frame'.c16 > 65) ]_vars

LostTracking(f) ==
    f.action = "animate" /\ f.kind = "pass" /\ f.enabled /\ ~f.poseDetected

\* C2 amended (Spec): Inactive->Active happens only in a gate update with
\* confidence > 0.65; Active->Inactive happens only in a gate update with
\* confidence < 0.45, in a processed frame of enabled body tracking without
\* a detected pose (resetPose), or in the step that switches body tracking
\* off.
C2_ActivationChanges ==
    [][ /\ (leftArmActive /\ ~leftArmActive')
            => \/ frame'.action = "animate" /\ frame'.gated
                    /\ frame'.c15 < 45
               \/ LostTracking(frame')
               \/ frame'.action = "toggleBody" /\ ~BODY_TRACKING_ENABLED'
        /\ (~leftArmActive /\ leftArmActive')
            => (frame'.action = "animate" /\ frame'.gated
                  /\ frame'.c15 > 65)
        /\ (rightArmActive /\ ~rightArmActive')
            => \/ frame'.action = "animate" /\ frame'.gated
                    /\ frame'.c16 < 45
               \/ LostTracking(frame')
               \/ frame'.action = "toggleBody" /\ ~BODY_TRACKING_ENABLED'
        /\ (~rightArmActive /\ rightArmActive')
            => (frame'.action = "animate" /\ frame'.gated
                  /\ frame'.c16 > 65) ]_vars

\* an Active limb has just been made Inactive by a frame without a pose
C2_Witness ==
    /\ LostTracking(frame)
    /\ frame.wasLeft
    /\ ~leftArmActive
    /\ ~frame.gated

Count(events, op, arg) ==
    Cardinality({i \in 1..Len(events) : events[i].op = op /\ events[i].arg = arg})

Writes(events, bone) ==
    {i \in 1..Len(events) : events[i].op = "slerp" /\ events[i].arg = bone}

\* C3 (Spec): a display callback runs a retargeting pass iff the video has
\* data and its timestamp differs from the last processed one; the pass is
\* on the current source frame, calls each tracker, the filter bank and
\* each gate at most once, and records the timestamp; a callback with an
\* unchanged timestamp calls no filter, updates no gate, writes no joint.
C3_SourceFrameGuard ==
    [][ frame'.action = "animate" =>
          LET changed == videoReady /\ videoTime # lastVideoTime
              t == frame'.trace
          IN  /\ changed =>
                   /\ frame'.kind = "pass"
                   /\ lastVideoTime' = videoTime
                   /\ frame'.videoTime = videoTime
                   /\ Count(t, "detect", "face") <= 1
                   /\ Count(t, "detect", "hand") <= 1
                   /\ Count(t, "detect", "pose") <= 1
                   /\ Count(t, "getFilteredPoseLandmarks", "") <= 1
                   /\ Count(t, "gate", "leftArmActive") <= 1
                   /\ Count(t, "gate", "rightArmActive") <= 1
              /\ ~changed =>
                   /\ frame'.kind = "skip"
                   /\ t = <<>>
                   /\ UNCHANGED <<lastVideoTime, leftArmActive, rightArmActive,
                                  poseFilters, quat>> ]_vars

\* a callback skipped although video, trackers and rig are all available
C3_Witness ==
    /\ frame.action = "animate"
    /\ frame.kind = "skip"
    /\ frame.ready
    /\ frame.videoTime = frame.lastBefore
    /\ BODY_TRACKING_ENABLED
    /\ mediapipe = 3
    /\ currentVrm.loaded
    /\ poseFilters.constructed

ArmRelax ==
    [rightUpperArm |-> "relaxRight", leftUpperArm |-> "relaxLeft",
     rightLowerArm |-> "neutral", leftLowerArm |-> "neutral"]

RelaxedBy(events, bone, speed, coef) ==
    \E i \in 1..Len(events) :
        /\ events[i].op = "slerp"
        /\ events[i].arg = bone
        /\ events[i].target = ArmRelax[bone]
        /\ events[i].speed = speed
        /\ events[i].coef = coef

\* C4 as stated (Spec): after a processed frame with body tracking enabled
\* and no pose detected, both limbs are Inactive and both arms (upper and
\* lower joint of each side) have been blended toward the relaxed rest
\* rotation.
C4_LostTrackingRelaxesBothArms ==
    LostTracking(frame) =>
        /\ ~leftArmActive /\ ~rightArmActive
        /\ \A b \in DOMAIN ArmRelax : RelaxedBy(frame.trace, b, 8, 10)

\* C4 amended (Spec): after such a frame both limbs are Inactive, and every
\* arm joint that the loaded rig has was blended toward its relaxed rest
\* rotation; a joint the rig lacks, and every joint while no rig is loaded,
\* is not written.
C4_LostTrackingRelaxesPresentArms ==
    LostTracking(frame) =>
        /\ ~leftArmActive /\ ~rightArmActive
        /\ \A b \in DOMAIN ArmRelax :
             /\ Has(currentVrm, b) =>
                  /\ RelaxedBy(frame.trace, b, 8, 10)
                  /\ quat[b] = ArmRelax[b]
             /\ ~Has(currentVrm, b) => Writes(frame.trace, b) = {}
        /\ Count(frame.trace, "resetPose", "") = 1
        /\ Count(frame.trace, "applyPose", "") = 0

\* tracking of two Active limbs is lost on a complete rig
C4_Witness ==
    /\ LostTracking(frame)
    /\ frame.wasLeft /\ frame.wasRight
    /\ ~leftArmActive /\ ~rightArmActive
    /\ currentVrm.bones = Bones
    /\ \A b \in DOMAIN ArmRelax : quat[b] = ArmRelax[b]

\* the driver of one arm in a pose pass: IK, or the relax blend
DrivenByIK(events, upper, lower) ==
    /\ Count(events, "solveTwoBoneIK", upper) = 1
    /\ \A i \in Writes(events, upper) \cup Writes(events, lower) :
          events[i].target = "ik"
    /\ Writes(events, upper) # {} /\ Writes(events, lower) # {}

DrivenByRelax(events, upper, lower) ==
    /\ Count(events, "solveTwoBoneIK", upper) = 0
    /\ \A i \in Writes(events, upper) \cup Writes(events, lower) :
          events[i].target = ArmRelax[events[i].arg]
    /\ RelaxedBy(events, upper, 12, 3) /\ RelaxedBy(events, lower, 12, 3)

\* C5 (Spec): in a pose pass, for an arm whose upper, lower and hand joints
\* are present, the limb state used is the one the gate of this pass
\* produced, and exactly one driver runs: IK without relax blend when the
\* limb is Active, relax blend of upper and lower joint without IK when it
\* is Inactive.
C5_GateThenDrive ==
    (frame.action = "animate" /\ frame.gated) =>
        LET gatedLeft == IF frame.wasLeft THEN ~(frame.c15 < 45)
                         ELSE frame.c15 > 65
            gatedRight == IF frame.wasRight THEN ~(frame.c16 < 45)
                          ELSE frame.c16 > 65
            t == frame.trace
        IN  /\ leftArmActive = gatedLeft
            /\ rightArmActive = gatedRight
            /\ {"rightUpperArm", "rightLowerArm", "rightHand"}
                   \subseteq currentVrm.bones
                 => IF gatedLeft
                    THEN DrivenByIK(t, "rightUpperArm", "rightLowerArm")
                    ELSE DrivenByRelax(t, "rightUpperArm", "rightLowerArm")
            /\ {"leftUpperArm", "leftLowerArm", "leftHand"}
                   \subseteq currentVrm.bones
                 => IF gatedRight
                    THEN DrivenByIK(t, "leftUpperArm", "leftLowerArm")
                    ELSE DrivenByRelax(t, "leftUpperArm", "leftLowerArm")

\* in one pass a limb is activated and solved by IK while the other limb is
\* deactivated and relaxed
C5_Witness ==
    /\ frame.action = "animate"
    /\ frame.gated
    /\ currentVrm.bones = Bones
    /\ ~frame.wasLeft /\ frame.c15 = 70 /\ leftArmActive
    /\ frame.wasRight /\ frame.c16 = 30 /\ ~rightArmActive
    /\ DrivenByIK(frame.trace, "rightUpperArm", "rightLowerArm")
    /\ DrivenByRelax(frame.trace, "leftUpperArm", "leftLowerArm")

\* C6 (FilterSpec): a call filter(value, t) with t <= the stored timestamp
\* returns the stored filtered value and leaves the whole state unchanged.
C6_NonMonotonicTimeAbsorbed ==
    (call.op = "filter" /\ call.pre.tPrev # NULL /\ RLe(call.t, call.pre.tPrev))
        => (out = call.pre.xPrev /\ flt = call.pre)

C6_Witness ==
    /\ call.op = "filter"
    /\ call.pre.tPrev # NULL
    /\ RLt(call.t, call.pre.tPrev)
    /\ call.x # out
    /\ flt = call.pre

\* C7 (FilterSpec): the first call on a fresh instance, and the first call
\* after reset(), returns exactly value and stores (value, 0, t).
C7_FirstCall ==
    (call.op = "filter" /\ call.nth = 1)
        => /\ out = call.x
           /\ flt.xPrev = call.x
           /\ flt.dxPrev = R(0)
           /\ flt.tPrev = call.t

\* a first call after reset()
C7_Witness ==
    /\ call.op = "filter"
    /\ call.nth = 1
    /\ call.afterReset
    /\ call.pre.tPrev = NULL
    /\ out = call.x
    /\ flt.tPrev = call.t
    /\ RLt(R(0), call.t)

\* C8 (FilterSpec): between resets the stored timestamp never decreases,
\* and the derivative division is only made with elapsed > 0.
C8_TimestampMonotone ==
    /\ (call.op = "filter" /\ call.pre.tPrev # NULL)
          => RLe(call.pre.tPrev, flt.tPrev)
    /\ call.divisor # NULL => RLt(R(0), call.divisor)

\* a decreasing timestamp arrives at an instance that has been updated
C8_Witness ==
    /\ call.op = "filter"
    /\ call.pre.tPrev # NULL
    /\ RLt(call.t, call.pre.tPrev)
    /\ Den(flt.xPrev) > 1
    /\ flt.tPrev = call.pre.tPrev

\* C9 (FilterSpec): in every update (timestamp later than the stored one)
\* with input v the output lies between the previous output and v, its
\* distance to v does not grow, and it shrinks at least by the factor
\* 1 / (1 + 2*pi*minCutoff*elapsed), so constant input converges to v.
C9_NoOvershoot ==
    (call.op = "filter" /\ call.pre.tPrev # NULL /\ RLt(call.pre.tPrev, call.t))
        => LET v == call.x
               p == call.pre.xPrev
               te == RSub(call.t, call.pre.tPrev)
               r == RMul(RMul(TwoPi, flt.minCutoff), te)
           IN  /\ RLe(RMin(p, v), out) /\ RLe(out, RMax(p, v))
               /\ RLe(RAbs(RSub(out, v)), RAbs(RSub(p, v)))
               /\ RLe(RMul(RAdd(R(1), r), RAbs(RSub(out, v))), RAbs(RSub(p, v)))
               /\ flt.xPrev = out

\* an update of an already updated instance that moves strictly toward v
C9_Witness ==
    /\ call.op = "filter"
    /\ call.pre.tPrev # NULL
    /\ RLt(call.pre.tPrev, call.t)
    /\ Den(call.pre.xPrev) > 1
    /\ out # call.x
    /\ out # call.pre.xPrev

\* C10 (Spec): the delta-time fed to the interpolation factor of a
\* retargeting pass is the wall-clock time since the previous pass, so the
\* delta-times of successive passes add up to the time elapsed between them.
C10_DeltaTimeSpansPasses ==
    [][ (frame'.action = "animate" /\ frame'.kind = "pass" /\ lastPassTime >= 0)
          => frame'.deltaTime = clock' - lastPassTime ]_vars

\* ------------------------------------------------------------------------
\* The IK solver (IKSpec)
\* ------------------------------------------------------------------------
Solved == ik.called /\ ik.log.solved
MaxReach == RSub(RAdd(ik.a, ik.b), epsilon)
MinReach == RAdd(RAbs(RSub(ik.a, ik.b)), epsilon)
OrdinaryBones == RLe(epsilon, ik.a) /\ RLe(epsilon, ik.b)

\* the 90 degree bend: shoulder at the origin, elbow at (0.3, 0, 0), wrist
\* at (0.3, 0.3, 0), a = b = 0.3, both joints at rest, delta-time > 0
Bend90 ==
    /\ Solved
    /\ ik.a = <<3, 10>> /\ ik.b = <<3, 10>>
    /\ ik.targetPos.d = <<3, 3, 0>> /\ ik.polePos.d = <<3, 0, 0>>
    /\ ik.upperBefore = Identity /\ ik.lowerBefore = Identity
    /\ RLt(R(0), ik.deltaTime)

\* e^-x >= 1 - x for x >= 0, and pi / 2 > 1.57
ExpNegLo(x) == IF RLe(x, R(1)) THEN RSub(R(1), x) ELSE R(0)
HalfPiLo == <<157, 100>>

\* A hinge that is blended from rest toward the flexion pi / 2 with the
\* factor 1 - e^-x has the flexion (1 - e^-x) * pi / 2; what is missing to
\* pi / 2 is e^-x * pi / 2, at least GapLo
GapLo == RMul(ExpNegLo(RMul(R(LERP_SPEED), ik.deltaTime)), HalfPiLo)

\* C11 as stated (IKSpec): in the 90 degree bend, after the single call the
\* lower joint's flexion is within 1e-3 rad of pi - elbowAngle = pi / 2.
C11_FlexionReachedInOneCall ==
    Bend90 => /\ AngleIs(ik.log.elbowAngle, R(0))
              /\ RLe(GapLo, <<1, 1000>>)

\* C11 amended (IKSpec): in the 90 degree bend the elbow angle of the law of
\* cosines is pi / 2, the lower joint is blended from rest toward the hinge
\* rotation of pi - elbowAngle = pi / 2 about its y axis with the factor
\* 1 - e^(-12 dt), and for dt <= 1/15 s its flexion after the call is more
\* than 1e-3 rad short of pi / 2.
C11_FlexionBlendedTowardTarget ==
    Bend90 =>
        /\ AngleIs(ik.log.elbowAngle, R(0))
        /\ ik.lowerBone.kind = "slerp"
        /\ ik.lowerBone.from = Identity
        /\ ik.lowerBone.to.kind = "hinge"
        /\ ik.lowerBone.to.axis = up
        /\ AngleIs(ik.lowerBone.to.angle, R(0))
        /\ ik.lowerBone.factor = [speed |-> 12, deltaTime |-> ik.deltaTime]
        /\ RLe(ik.deltaTime, <<1, 15>>) => RLt(<<1, 1000>>, GapLo)

\* the scenario at 16 ms per frame
C11_Witness ==
    /\ Bend90
    /\ ik.deltaTime = <<2, 125>>
    /\ ik.log.c = Root(1, <<9, 50>>)
    /\ ik.lowerBone.kind = "slerp"

AtDistance(r) == ik.targetPos.len = Rat(r)
InReach ==
    /\ ~RealGt(ik.targetPos.len, RAdd(ik.a, ik.b))
    /\ ~RealLt(ik.targetPos.len, RAbs(RSub(ik.a, ik.b)))
NoNaN ==
    /\ ~IsNaNAngle(ik.log.shoulderAngle)
    /\ ~IsNaNAngle(ik.log.elbowAngle)
    /\ ik.upperBone.kind = "slerp" => ~ik.upperBone.to.nan
    /\ ik.lowerBone.kind = "slerp" => ~ik.lowerBone.to.nan

CosElbow(c) ==
    RDiv(RSub(RAdd(RMul(ik.a, ik.a), RMul(ik.b, ik.b)), RMul(c, c)),
         RMul(RMul(R(2), ik.a), ik.b))

RealWithin(c, lo, hi) == ~RealLt(c, lo) /\ ~RealGt(c, hi)

\* C13 as stated (IKSpec): for every target, also of length zero, and all
\* a, b > 0, after step 1 the distance c lies in [|a-b|+eps, a+b-eps] and
\* the target has length c and its direction.
C13_ClampEveryTarget ==
    Solved =>
        /\ RealWithin(ik.log.c, MinReach, MaxReach)
        /\ ik.log.targetPos.len = ik.log.c
        /\ ik.log.targetPos.d = ik.targetPos.d

\* C13 amended (IKSpec): for a, b >= epsilon, c lies in
\* [|a-b|+eps, a+b-eps]; a target of non-zero length has length c and its
\* direction after step 1; a target of length zero stays of length zero,
\* with c = |a-b|+eps.
C13_ClampNonZeroTarget ==
    (Solved /\ OrdinaryBones) =>
        /\ RealWithin(ik.log.c, MinReach, MaxReach)
        /\ ik.targetPos.d # Zero3 =>
             /\ ik.log.targetPos.len = ik.log.c
             /\ ik.log.targetPos.d = ik.targetPos.d
        /\ ik.targetPos.d = Zero3 =>
             /\ ik.log.targetPos = ik.targetPos
             /\ ik.log.c = Rat(MinReach)

\* a target out of reach is pulled in to a + b - epsilon
C13_Witness ==
    /\ Solved
    /\ ik.a = <<3, 10>> /\ ik.b = <<1, 5>>
    /\ ik.targetPos.d = <<9, 0, 0>>
    /\ ik.log.c = Rat(<<499, 1000>>)
    /\ ik.log.targetPos = [d |-> <<9, 0, 0>>, len |-> Rat(<<499, 1000>>)]

\* the direction of the target that the solver uses (dirToTarget)
DirToTarget == normalize(ik.log.targetPos).d
Colinear(u, v) == crossVectors(u, v) = Zero3

\* C14 (IKSpec): for a non-zero target direction and a pole colinear with
\* it (parallel, anti-parallel or zero), the plane normal is non-zero and
\* perpendicular to the target direction; it is the cross product of the
\* target direction with up, or with forward when the target direction is
\* along up (within the solver's tolerance, squared sine below 0.0001); the
\* rotation of the upper joint is not NaN.
C14_FallbackNormal ==
    (Solved /\ DirToTarget # Zero3 /\ Colinear(DirToTarget, ik.polePos.d)) =>
        LET n == ik.log.planeNormal
            alongUp == 10000 * lengthSq(crossVectors(DirToTarget, up))
                          < lengthSq(DirToTarget)
        IN  /\ n.d # Zero3
            /\ dot(n.d, DirToTarget) = 0
            /\ n.from = (IF alongUp THEN "forward" ELSE "up")
            /\ n.from = "up" => n.d = crossVectors(DirToTarget, up)
            /\ n.from = "forward" => n.d = crossVectors(DirToTarget, forward)
            /\ Colinear(DirToTarget, up) => n.from = "forward"
            /\ ik.upperBone.kind = "slerp" => ~ik.upperBone.to.nan

\* target along up with an anti-parallel pole: the normal comes from forward
C14_Witness ==
    /\ Solved
    /\ ik.targetPos.d = <<0, 2, 0>>
    /\ ik.polePos.d = <<0, -2, 0>>
    /\ ik.log.planeNormal = [d |-> <<2, 0, 0>>, from |-> "forward"]
    /\ ik.upperBone.kind = "slerp"

\* ---- C15 ---------------------------------------------------------------
FingerApplied == finger.called /\ Num(finger.totalLength) > 0

\* 1 - straightLength / arcLength, held in [0, 1]
RawCurl ==
    LET x == RSub(R(1), RDiv(finger.straightDist, finger.totalLength))
    IN  IF RLt(x, R(0)) THEN R(0) ELSE IF RLt(R(1), x) THEN R(1) ELSE x

\* x^0.7 * 1.5 >= 1 iff x^7 * 3^10 >= 2^10
Saturates(x) == Num(x)^7 * 59049 >= 1024 * Den(x)^7

\* clamp(x^0.7 * 1.5, 0, 1)
ReshapedCurl(x) ==
    IF Saturates(x) THEN Exactly(R(1))
    ELSE IF Num(x) = 0 THEN Exactly(R(0))
    ELSE Reshaped(x)

\* a curl value in [0, 1]
InUnitRange(c) ==
    IF c.rat # NULL
    THEN ~IsNaN(c.rat) /\ RLe(R(0), c.rat) /\ RLe(c.rat, R(1))
    ELSE Num(c.base) > 0 /\ ~Saturates(c.base)

\* the joints follow one another along one line
InOrderOnLine(joints) ==
    LET d == <<sub(joints[2], joints[1]), sub(joints[3], joints[2]),
               sub(joints[4], joints[3])>>
    IN  \A i, j \in 1..3 :
            crossVectors(d[i], d[j]) = Zero3 /\ dot(d[i], d[j]) >= 0

FoldedTo40Percent ==
    RMul(R(5), finger.straightDist) = RMul(R(2), finger.totalLength)

\* C15: for every finger and every four joints with arc length > 0 the curl
\* written to every present bone of the finger is
\* clamp(clamp(1 - straight/arc, 0, 1)^0.7 * 1.5, 0, 1), a value in [0, 1];
\* joints in order on one line give exactly 0; a straight distance of 0.4 of
\* the arc gives the raw curl 0.6 and the reshaped curl
\* clamp(0.6^0.7 * 1.5, 0, 1), which is 1.
C15_FingerCurlValue ==
    FingerApplied =>
        /\ finger.raw = RawCurl
        /\ finger.curl = ReshapedCurl(RawCurl)
        /\ InUnitRange(finger.curl)
        /\ Len(finger.writes) = Cardinality(finger.present)
        /\ \A i \in 1..Len(finger.writes) :
              /\ finger.writes[i].curl = finger.curl
              /\ finger.writes[i].bone[1] = finger.prefix
              /\ finger.writes[i].bone[2] = finger.fingerName
              /\ finger.writes[i].bone[3] \in finger.present
        /\ (InOrderOnLine(finger.joints) => finger.curl = Exactly(R(0)))
        /\ (FoldedTo40Percent =>
                /\ finger.raw = <<3, 5>>
                /\ finger.curl = ReshapedCurl(<<3, 5>>)
                /\ finger.curl = Exactly(R(1)))

C15_Witness ==
    /\ FingerApplied
    /\ FoldedTo40Percent
    /\ finger.fingerName = "Index"
    /\ Len(finger.writes) = 3
    /\ finger.writes[2].curl = Exactly(R(1))
    /\ finger.writes[2].maxAngle = 55

\* ---- C16 ---------------------------------------------------------------
Mirrored == point.args # <<FALSE>>

\* C16: for every point p and mirror flag m, mpToVRM returns
\* (m ? -x : x, -y, -z) and leaves p as it was; y and z of the result are
\* the same for m = true and m = false; with mirror = true, mapping the
\* result again gives the original x, y and z.
C16_MapperTotalAndInvolutive ==
    point.called =>
        /\ point.ret.x = IF Mirrored THEN RNeg(point.landmark.x)
                         ELSE point.landmark.x
        /\ point.ret.y = RNeg(point.landmark.y)
        /\ point.ret.z = RNeg(point.landmark.z)
        /\ point.landmarkAfter = point.landmark
        /\ mpToVRM(point.landmark, <<TRUE>>).ret.y
               = mpToVRM(point.landmark, <<FALSE>>).ret.y
        /\ mpToVRM(point.landmark, <<TRUE>>).ret.z
               = mpToVRM(point.landmark, <<FALSE>>).ret.z
        /\ (Mirrored =>
               /\ point.again.x = point.landmark.x
               /\ point.again.y = point.landmark.y
               /\ point.again.z = point.landmark.z)

C16_Witness ==
    /\ point.called
    /\ point.args = <<TRUE>>
    /\ point.landmark.x = <<-1, 4>>
    /\ point.ret.x = <<1, 4>>
    /\ point.again.x = <<-1, 4>>
    /\ point.ret.y # point.landmark.y

\* ---- C17 ---------------------------------------------------------------
\* the joints written by a log
WrittenJoints(trace) ==
    {trace[i].arg : i \in {j \in 1..Len(trace) : trace[j].op = "slerp"}}

\* the pass ran to its last stage
RanToEnd(trace) ==
    \E i \in 1..Len(trace) : trace[i].op \in {"applyPose", "resetPose"}

\* C17: on every rig (any subset of the joints, or no rig at all) and for
\* every tracker result (face, hand, pose or world landmarks missing, a
\* tracker not created yet) a retargeting pass runs to its end and writes
\* only joints the rig has (a write to an absent joint would be a null
\* dereference); a joint the rig lacks keeps its rotation; solveTwoBoneIK
\* with an absent upper or lower joint writes nothing.
C17_PartialInputIsSkipped ==
    /\ frame.kind = "pass" =>
          /\ RanToEnd(frame.trace)
          /\ \A b \in WrittenJoints(frame.trace) : Has(currentVrm, b)
    /\ \A b \in Bones : ~Has(currentVrm, b) => quat[b] = "bind"
    /\ frame.kind = "ik" =>
          LET solve == frame.trace[1] IN
          (~Has(currentVrm, solve.arg) \/ ~Has(currentVrm, solve.target))
              => /\ WrittenJoints(frame.trace) = {}
                 /\ \A b \in Bones : quat[b] = "bind"

C17_Witness ==
    /\ frame.kind = "pass"
    /\ currentVrm.loaded
    /\ currentVrm.bones = Bones \ {"rightHand", "spine", "neck"}
    /\ leftArmActive /\ rightArmActive
    /\ WrittenJoints(frame.trace)
           = {"head", "leftUpperArm", "leftLowerArm"}
    /\ quat["rightUpperArm"] = "bind"
    /\ quat["leftUpperArm"] = "ik"

\* ---- C18 ---------------------------------------------------------------
\* a processed frame while body tracking is off
FaceOnlyPass(f) == f.action = "animate" /\ f.kind = "pass" /\ ~f.enabled

\* no hand or pose inference, no filter call, no gate, no IK, no finger curl
NoBodyWork(t) ==
    /\ Count(t, "detect", "hand") = 0
    /\ Count(t, "detect", "pose") = 0
    /\ Count(t, "getFilteredPoseLandmarks", "") = 0
    /\ Count(t, "applyPose", "") = 0
    /\ Count(t, "gate", "leftArmActive") = 0
    /\ Count(t, "gate", "rightArmActive") = 0
    /\ \A i \in 1..Len(t) :
          /\ t[i].op \notin {"applyHands", "applyFingers", "solveTwoBoneIK"}
          /\ t[i].op = "slerp" => t[i].target # "ik"

\* what the claim says of the toggle apart from the blend of the arms
ToggleRules ==
    /\ frame.action = "none" => ~BODY_TRACKING_ENABLED
    /\ ~BODY_TRACKING_ENABLED => ~leftArmActive /\ ~rightArmActive
    /\ frame.action = "toggleBody" => ~leftArmActive /\ ~rightArmActive
    /\ FaceOnlyPass(frame) =>
          /\ NoBodyWork(frame.trace)
          /\ Count(frame.trace, "detect", "face")
                = (IF mediapipe >= 1 THEN 1 ELSE 0)
          /\ Count(frame.trace, "resetPose", "") = 1
    /\ (frame.action = "animate" /\ leftArmActive /\ ~frame.wasLeft)
          => frame.gated /\ frame.c15 > VIS_THRESHOLD_ON
    /\ (frame.action = "animate" /\ rightArmActive /\ ~frame.wasRight)
          => frame.gated /\ frame.c16 > VIS_THRESHOLD_ON

\* C18 as stated (Spec): body tracking is off initially; a processed frame
\* while it is off runs face tracking only, blends both arms toward the
\* relaxed rest pose and leaves both limbs Inactive; switching it off sets
\* both limbs Inactive at once, and after re-enabling a limb becomes Active
\* only by a new confidence above the on threshold.
C18_OffBlendsBothArms ==
    /\ ToggleRules
    /\ FaceOnlyPass(frame) =>
          \A b \in DOMAIN ArmRelax : RelaxedBy(frame.trace, b, 8, 10)

\* C18 amended (Spec): the same, the blend being that of every upper and
\* lower arm joint the loaded rig has; a joint the rig lacks, and every
\* joint while no rig is loaded, is not written.
C18_OffBlendsPresentArms ==
    /\ ToggleRules
    /\ FaceOnlyPass(frame) =>
          \A b \in DOMAIN ArmRelax :
             /\ Has(currentVrm, b) =>
                  /\ RelaxedBy(frame.trace, b, 8, 10)
                  /\ quat[b] = ArmRelax[b]
             /\ ~Has(currentVrm, b) => Writes(frame.trace, b) = {}

\* body tracking was on and filtered a pose, and is off in this pass, which
\* runs the face tracker and relaxes all four arm joints
C18_Witness ==
    /\ FaceOnlyPass(frame)
    /\ poseFilters.constructed
    /\ mediapipe = 3
    /\ currentVrm.bones = Bones
    /\ Count(frame.trace, "detect", "face") = 1
    /\ \A b \in DOMAIN ArmRelax : quat[b] = ArmRelax[b]
    /\ ~leftArmActive /\ ~rightArmActive

\* ---- C19 ---------------------------------------------------------------
\* a log entry that changes a joint's rotation
IsWrite(e) == e.target # ""

\* slerp(target, f) with f = (coef / 10) * (1 - e^-(speed * dt)):
\* 0 < coef / 10 <= 1 and speed * dt >= 0 give 0 <= f < 1
Interpolation(e, deltaTime) ==
    /\ e.op = "slerp"
    /\ e.speed \in {8, 10, LERP_SPEED, 15}
    /\ e.dt = deltaTime /\ e.dt >= 0
    /\ e.coef \in 1..10

\* the joint is written, by a blend toward the IK solution with
\* f = 1 - e^-(12 * dt), 0 < f < 1
BlendedPartWay(t, bone, deltaTime) ==
    /\ Writes(t, bone) # {}
    /\ \A i \in 1..Len(t) :
          (IsWrite(t[i]) /\ t[i].arg = bone) =>
              /\ Interpolation(t[i], deltaTime)
              /\ t[i].target = "ik"
              /\ t[i].speed = LERP_SPEED /\ t[i].coef = 10
              /\ t[i].dt > 0

Reactivated(f, before, after, upper, lower, hand) ==
    /\ f.action = "animate" /\ ~before /\ after
    /\ Has(currentVrm, upper) /\ Has(currentVrm, lower) /\ Has(currentVrm, hand)

OwnLandmarkOnly(filters) ==
    /\ DOMAIN filters = FilterIds
    /\ Cardinality(DOMAIN filters) = 33
    /\ \A i \in DOMAIN filters : filters[i] \subseteq {i}

\* the filters of the array still hold what they held
Kept(tPrev, tPrevAfter, filters, filtersAfter) ==
    /\ tPrev # NULL => (tPrevAfter # NULL /\ RLe(tPrev, tPrevAfter))
    /\ \A i \in DOMAIN filters : filters[i] \subseteq filtersAfter[i]

\* C20 (Spec): the bank is constructed once, by the first pass that filters
\* a pose, with 33 filters for the normalized and 33 for the world
\* landmarks; no later step (a pass with or without a pose, the Pose
\* button, the camera going off and on, a rig being loaded) replaces or
\* resets it; only a pass that filters a pose changes it, and filter i of
\* each array is called with landmark i only.
C20_BankBuiltOnce ==
    [][ /\ poseFilters'.built <= 1
        /\ poseFilters'.constructed <=> poseFilters'.built = 1
        /\ poseFilters'.constructed =>
              /\ OwnLandmarkOnly(poseFilters'.seen.landmarks)
              /\ OwnLandmarkOnly(poseFilters'.seen.worldLandmarks)
        /\ poseFilters.constructed =>
              /\ poseFilters'.constructed
              /\ Kept(poseFilters.landmarks, poseFilters'.landmarks,
                      poseFilters.seen.landmarks,
                      poseFilters'.seen.landmarks)
              /\ Kept(poseFilters.worldLandmarks, poseFilters'.worldLandmarks,
                      poseFilters.seen.worldLandmarks,
                      poseFilters'.seen.worldLandmarks)
        /\ poseFilters' # poseFilters =>
              /\ frame'.action = "animate" /\ frame'.poseDetected
              /\ Count(frame'.trace, "getFilteredPoseLandmarks", "") = 1
              /\ \A i \in FilterIds :
                    poseFilters'.seen.landmarks[i] = {i} ]_vars

\* the bank, built once, has filtered a pose with world landmarks at 1 ms
\* and, in a later pass, a pose without world landmarks at 3 ms
C20_Witness ==
    /\ poseFilters.constructed
    /\ poseFilters.built = 1
    /\ poseFilters.landmarks = <<3, 1000>>
    /\ poseFilters.worldLandmarks = <<1, 1000>>
    /\ poseFilters.seen.landmarks[0] = {0}
    /\ poseFilters.seen.worldLandmarks[32] = {32}
    /\ frame.action = "animate" /\ frame.poseDetected

\* ---- C21 ---------------------------------------------------------------
\* the call was absorbed: elapsed <= 0
Absorbed3D ==
    /\ f3.pre.xFilter.tPrev # NULL
    /\ RLe(f3.t, f3.pre.xFilter.tPrev)

\* C21 (Filter3DSpec): on every call, absorbed or not, the returned point
\* carries the visibility of the call's input; each returned coordinate and
\* each scalar filter's new memory is that of the scalar filter of the same
\* coordinate called with that coordinate and the timestamp, and does not
\* change when the other two coordinates or the visibility of the input do.
C21_PassThroughAndIndependence ==
    f3.called =>
        LET x == filter(f3.pre.xFilter, f3.point.x, f3.t)
            y == filter(f3.pre.yFilter, f3.point.y, f3.t)
            z == filter(f3.pre.zFilter, f3.point.z, f3.t)
        IN  /\ f3.ret.visibility = f3.point.visibility
            /\ f3.ret.x = x.ret /\ f3.flt.xFilter = x.state
            /\ f3.ret.y = y.ret /\ f3.flt.yFilter = y.state
            /\ f3.ret.z = z.ret /\ f3.flt.zFilter = z.state
            /\ Absorbed3D =>
                  /\ f3.flt = f3.pre
                  /\ f3.ret.x = f3.pre.xFilter.xPrev
            /\ \A q \in Points3D :
                  LET r == filter3D(f3.pre, q, f3.t) IN
                  /\ q.x = f3.point.x =>
                        (r.ret.x = f3.ret.x /\ r.state.xFilter = f3.flt.xFilter)
                  /\ q.y = f3.point.y =>
                        (r.ret.y = f3.ret.y /\ r.state.yFilter = f3.flt.yFilter)
                  /\ q.z = f3.point.z =>
                        (r.ret.z = f3.ret.z /\ r.state.zFilter = f3.flt.zFilter)

\* an absorbed call with a visibility, whose coordinates are not returned
C21_Witness ==
    /\ f3.called
    /\ Absorbed3D
    /\ f3.point.visibility = 50
    /\ f3.ret.visibility = 50
    /\ f3.ret.x # f3.point.x
    /\ f3.ret.y # f3.ret.x
    /\ Den(f3.ret.y) > 1

\* ---- C22 ---------------------------------------------------------------
\* the landmarks with those of the user's right side (12, 14, 16) replaced
OtherRightSide(landmarks, other) ==
    [i \in DOMAIN landmarks |->
        IF i \in {12, 14, 16} THEN Landmarks(other, other)[i]
        ELSE landmarks[i]]

\* the landmarks with those of the user's left side (11, 13, 15) replaced
OtherLeftSide(landmarks, own) ==
    [i \in DOMAIN landmarks |->
        IF i \in {11, 13, 15} THEN Landmarks(own, own)[i]
        ELSE landmarks[i]]

SamePass(landmarks) ==
    poseArms(arms.vrm, arms.wasLeft, arms.wasRight, landmarks,
             IF arms.worldLandmarks = NULL THEN NULL ELSE World(landmarks))

\* C22 (ArmSpec): the arm of the rig on the right is gated by landmark 15
\* and driven from landmarks 11, 13, 15, the one on the left is gated by
\* landmark 16 and driven from 12, 14, 16; a pass from the same state with
\* other landmarks 12, 14, 16 gives the same flag, target and pole for the
\* right arm of the rig (and likewise for the left arm with 11, 13, 15), and
\* the gate of one limb leaves the flag of the other as it would have been.
C22_MirroredIndependentArms ==
    (arms.called /\ arms.kind = "applyPose") =>
        /\ arms.leftArmActive
              = HysteresisGate(arms.wasLeft,
                               wristVis(arms.landmarks[15].visibility))
        /\ arms.rightArmActive
              = HysteresisGate(arms.wasRight,
                               wristVis(arms.landmarks[16].visibility))
        /\ arms.rightArm
              = armIK(arms.vrm, "rightUpperArm", "rightLowerArm", "rightHand",
                      arms.leftArmActive, arms.landmarks, arms.worldLandmarks,
                      11, 13, 15)
        /\ arms.leftArm
              = armIK(arms.vrm, "leftUpperArm", "leftLowerArm", "leftHand",
                      arms.rightArmActive, arms.landmarks, arms.worldLandmarks,
                      12, 14, 16)
        /\ \A view \in SideViews :
              LET r == SamePass(OtherRightSide(arms.landmarks, view))
                  l == SamePass(OtherLeftSide(arms.landmarks, view))
              IN  /\ r.leftArmActive = arms.leftArmActive
                  /\ r.rightArm = arms.rightArm
                  /\ l.rightArmActive = arms.rightArmActive
                  /\ l.leftArm = arms.leftArm
        /\ \A flag \in BOOLEAN :
              /\ poseArms(arms.vrm, arms.wasLeft, flag, arms.landmarks,
                          arms.worldLandmarks).leftArmActive
                    = arms.leftArmActive
              /\ poseArms(arms.vrm, flag, arms.wasRight, arms.landmarks,
                          arms.worldLandmarks).rightArmActive
                    = arms.rightArmActive

\* the right arm of the rig is solved toward the user's left wrist while
\* the user's right side, seen differently, relaxes the left arm of the rig
C22_Witness ==
    /\ arms.called
    /\ arms.kind = "applyPose"
    /\ arms.rightArm.branch = "solveTwoBoneIK"
    /\ arms.rightArm.mpArmLen = R(7)
    /\ arms.rightArm.target = <<<<-33, 140>>, <<-11, 35>>, R(0)>>
    /\ arms.leftArm.branch = "relax"
    /\ arms.wasRight /\ ~arms.rightArmActive
    /\ arms.landmarks[16].visibility = 30

\* ---- C23 ---------------------------------------------------------------
\* the bone lengths a and b a solved arm was given
LengthsRead(side) == <<side.upperLen, side.lowerLen>>

\* C23 (ArmSpec): every write of a pass (head, palm, finger curl, spine, IK,
\* relax, reset) is an interpolation of the joint's local rotation, no pass
\* changes a rest offset of the rig, and an arm that is solved is given the
\* rest offsets of its lower arm and hand, the same in every pass.
C23_RestGeometryReadOnly ==
    [][arms.called =>
        /\ arms'.vrm = arms.vrm
        /\ \A i \in DOMAIN arms'.ev :
              IsWrite(arms'.ev[i]) => arms'.ev[i].op = "slerp"
        /\ arms'.rightArm.branch = "solveTwoBoneIK" =>
              /\ LengthsRead(arms'.rightArm)
                    = <<arms.vrm.position["rightLowerArm"],
                        arms.vrm.position["rightHand"]>>
              /\ arms.rightArm.branch = "solveTwoBoneIK" =>
                    LengthsRead(arms'.rightArm) = LengthsRead(arms.rightArm)
        /\ arms'.leftArm.branch = "solveTwoBoneIK" =>
              /\ LengthsRead(arms'.leftArm)
                    = <<arms.vrm.position["leftLowerArm"],
                        arms.vrm.position["leftHand"]>>
              /\ arms.leftArm.branch = "solveTwoBoneIK" =>
                    LengthsRead(arms'.leftArm) = LengthsRead(arms.leftArm)
    ]_vars

\* an arm solved again after a reset and a solved pass, with every kind of
\* write in the log and the lengths 0.3 and 0.25
C23_Witness ==
    /\ arms.called
    /\ arms.kind = "applyPose"
    /\ arms.leftArm.branch = "solveTwoBoneIK"
    /\ LengthsRead(arms.leftArm) = <<<<3, 10>>, <<1, 4>>>>
    /\ arms.rightArm.branch = "relax"
    /\ WrittenJoints(SelectSeq(arms.ev, LAMBDA e : e.target # "curl"))
          = {"head", "neck", "rightHand", "spine", "leftUpperArm",
             "leftLowerArm", "rightUpperArm", "rightLowerArm"}
    /\ \E i \in DOMAIN arms.ev : arms.ev[i].target = "curl"

\* ---- C24 ---------------------------------------------------------------
\* positions in the log of a pass at which a stage acts
StageAt(trace, ops) == {i \in 1..Len(trace) : trace[i].op \in ops}
FaceStage(trace) == StageAt(trace, {"applyBlendshapes", "applyHeadRotation"})
BodyStage(trace) == StageAt(trace, {"applyPose", "solveTwoBoneIK"})
HandStage(trace) == StageAt(trace, {"applyHands", "applyFingers"})
Before(earlier, later) == \A i \in earlier, j \in later : i < j
IsPass == frame.action = "animate" /\ frame.kind = "pass"

\* C24 (Spec): in a pass, face tracking (applyBlendshapes,
\* applyHeadRotation) acts before body tracking (applyPose with the two-bone
\* IK), and body tracking before hand tracking (applyHands, applyFingers).
C24_DocumentedOrder ==
    IsPass =>
        /\ Before(FaceStage(frame.trace), BodyStage(frame.trace))
        /\ Before(BodyStage(frame.trace), HandStage(frame.trace))

\* ---- C25 ---------------------------------------------------------------
\* C25 (ArmSpec): in a pass that updates the gates, a wrist landmark
\* without a visibility is given the confidence 1.0, and the limb it gates
\* is Active after the pass, whether it was Inactive or Active before.
C25_MissingConfidenceIsFull ==
    (arms.called /\ arms.kind = "applyPose") =>
        /\ arms.landmarks[15].visibility = Undefined =>
              /\ wristVis(arms.landmarks[15].visibility) = 100
              /\ arms.leftArmActive
        /\ arms.landmarks[16].visibility = Undefined =>
              /\ wristVis(arms.landmarks[16].visibility) = 100
              /\ arms.rightArmActive

\* both wrists without a visibility: one limb was Inactive and is Active,
\* the other was Active and stays Active
C25_Witness ==
    /\ arms.called
    /\ arms.kind = "applyPose"
    /\ arms.landmarks[15].visibility = Undefined
    /\ arms.landmarks[16].visibility = Undefined
    /\ ~arms.wasLeft /\ arms.leftArmActive
    /\ arms.wasRight /\ arms.rightArmActive

\* ---- C26 ---------------------------------------------------------------
\* a JavaScript number that is neither NaN nor infinite
Finite(v) == Den(v) # 0
FiniteVector(v) == \A i \in 1..3 : Finite(v[i])

\* the arm scale of a solved arm has a non-zero divisor and the target
\* and pole handed to solveTwoBoneIK are finite
DefinedArm(side) ==
    side.branch = "solveTwoBoneIK" =>
        /\ Num(side.mpArmLen) # 0
        /\ Finite(side.scale)
        /\ FiniteVector(side.target)
        /\ FiniteVector(side.pole)

\* C26 (ArmSpec): for every tracker result, the scale avatarArmLen /
\* mpArmLen of an arm that is solved has a non-zero divisor, and the IK
\* target and pole passed to solveTwoBoneIK are finite numbers.
C26_DefinedRatios ==
    (arms.called /\ arms.kind = "applyPose") =>
        DefinedArm(arms.rightArm) /\ DefinedArm(arms.leftArm)

\* ---- C27 ---------------------------------------------------------------
\* C27 (RecSpec): while the current recorder is recording, its composite
\* canvas exists and its frame loop is scheduled; and the onstop handler of
\* a recorder cancels no loop, removes no canvas, closes no AudioContext and
\* downloads no chunk of a recording started after it.
C27_TeardownSparesNewerRecording ==
    /\ rec.state = "recording" =>
          /\ rec.compositeCanvas = rec.mediaRecorder
          /\ rec.mediaRecorder \in rec.loops
    /\ rec.onstop.handler # 0 =>
          /\ rec.onstop.loop <= rec.onstop.handler
          /\ rec.onstop.canvas <= rec.onstop.handler
          /\ rec.onstop.audioContext <= rec.onstop.handler
          /\ \A c \in rec.onstop.chunks : c <= rec.onstop.handler

\* ---- C28 ---------------------------------------------------------------
\* C28 (MicSpec): between handlers, micAnalyser is non-null only if
\* isMicEnabled is true and micStream is non-null, and isMicToggling is
\* false whenever no toggleMicrophone call is suspended.
C28_MicStateConsistent ==
    /\ mic.micAnalyser => (mic.isMicEnabled /\ mic.micStream)
    /\ mic.toggle = "idle" => ~mic.isMicToggling

\* ---- C29 ---------------------------------------------------------------
\* C29 (MicSpec): after every handler, isCaptionsEnabled implies
\* isMicEnabled; captions are switched on only by a handler that found the
\* mic on and leaves it on; a handler that switches the mic off leaves
\* captions off; and onend restarts the recognition only when captions and
\* mic are both enabled.
C29_CaptionsRequireMic ==
    [][/\ mic'.isCaptionsEnabled => mic'.isMicEnabled
       /\ (~mic.isCaptionsEnabled /\ mic'.isCaptionsEnabled) =>
             (mic.isMicEnabled /\ mic'.isMicEnabled)
       /\ (mic.isMicEnabled /\ ~mic'.isMicEnabled) => ~mic'.isCaptionsEnabled
       /\ (mic'.last = "onend" /\ mic'.speechRecognition = "running") =>
             /\ mic.isCaptionsEnabled /\ mic.isMicEnabled
             /\ mic'.isCaptionsEnabled /\ mic'.isMicEnabled
    ]_vars

\* the microphone track ended while captions were running: the mic is off,
\* captions are off and the recognition session is ending
C29_Witness ==
    /\ mic.last = "track.onended"
    /\ ~mic.isMicEnabled /\ ~mic.micStream
    /\ ~mic.isCaptionsEnabled
    /\ mic.speechRecognition = "ending"
    /\ mic.toggle = "resume"

\* ---- C30 ---------------------------------------------------------------
NoAnalyser == ~mic.micAnalyser /\ ~mic.tabAnalyser

\* C30 (MeterSpec): whenever neither a mic analyser nor a tab analyser
\* exists, eventually no meter frame is scheduled and meterAnimationId is
\* null (or an analyser exists again).
C30_MeterLoopStops ==
    [](NoAnalyser => <>(mic.meterAnimationId = 0 \/ ~NoAnalyser))

====
